---- MODULE Spec2Model ----
(***************************************************************************)
(* Chain event synchronisation of the NFT marketplace backend.             *)
(*                                                                         *)
(* The marketplace contract (contracts/NFTMarketplace.sol) emits           *)
(* MarketItemCreated / MarketItemSold / MarketItemCanceled logs; the Go    *)
(* backend subscribes to the first two (blockchain/client.go), applies     *)
(* them to the listings and transactions tables (service/*.go over the     *)
(* GORM repositories) and accepts listing submissions over HTTP after an   *)
(* on-chain read.                                                          *)
(*                                                                         *)
(* Timestamps (listed_at, created_at, block_timestamp) carry no decision   *)
(* in the code and are left out; sold_at is kept as a set/null flag.       *)
(***************************************************************************)
EXTENDS Integers, Sequences, FiniteSets, TLC

\* ------------------------------------------------------------------ bounds
MaxItems == 1          \* market items the contract creates
MaxPending == 1        \* logs waiting in one subscription's channel
\* The most logs a listener reads from one subscription.
MaxReceived == 2
\* Where the count of failed subscriptions stops counting.
MaxRetries == 2
\* The most rows the transactions table holds when the repository is driven
\* on its own.
MaxTx == 2
\* The most rows the listings table holds when the repository is driven on
\* its own.
MaxListings == 2
\* The most items the marketplace creates when the contract is driven on its
\* own.
MaxListed == 2
\* The largest unsigned integer of the contract's arithmetic, scaled down
\* from 2^256 - 1 so that a price times a fee can exceed it.
MaxUint == 65535
\* The ether every user starts with.
InitialWei == 200

\* --------------------------------------------------------------- addresses
\* The 20-byte values the model uses; ZeroAddress is address(0).
ZeroAddress == "addr0"
UserA == "addrA"
UserB == "addrB"
NftC1 == "addrC1"
Users == {UserA, UserB}

\* common.Address.Hex(): the checksummed (mixed-case) hex form.
Hex(a) ==
    CASE a = UserA -> "0xAa"
      [] a = UserB -> "0xBb"
      [] a = NftC1 -> "0xC1"
      [] OTHER     -> "0x00"

\* common.HexToAddress(s): case-insensitive; bytes that are not hex decode
\* to nothing, which is address(0).
HexToAddress(s) ==
    CASE s \in {"0xAa", "0xaa"} -> UserA
      [] s \in {"0xBb", "0xbb"} -> UserB
      [] s \in {"0xC1", "0xc1"} -> NftC1
      [] s = "0x00"             -> ZeroAddress
      [] OTHER                  -> ZeroAddress

\* big.Int.String(): decimal digits.
String(n) ==
    CASE n = 0   -> "0"
      [] n = 1   -> "1"
      [] n = 2   -> "2"
      [] n = 3   -> "3"
      [] n = 20  -> "20"
      [] n = 100 -> "100"
      [] n = 200 -> "200"
      [] OTHER   -> "n"

\* The prices items are listed at, and the msg.value a buyer may send.
ListPrices == {100}
SaleValues == {100, 200}

\* What a POST /listings body can carry (binding:"required": no empty field).
\* "0x00" is the all-zero address.  The sellers on chain vary (UserA or UserB), so one
\* submitted seller gives both the matching and the contradicting request.
ReqNFTContracts == {"0xC1", "0x00"}
ReqSellers == {"0xAa"}
\* The X-User-Address header of DELETE /listings/:id.
CancelSellers == {"0xAa", "0xBb"}
ReqPrices == {"100"}
ReqTokenIds == {"1"}
ReqTxHash == "0xreq"

VARIABLES
    idToMarketItem,   \* contract: the items created so far, by itemId (1..)
    ownerOf,          \* NFT contract: the owner of each token
    chainLog,         \* every log the contract has emitted
    sub,              \* per topic: "disconnected" | "streaming" | "backoff"
                      \* (asleep before the next attempt) | "stopped"
    logs,             \* per topic: the logs pushed to the live subscription
    createdWorker,    \* the MarketItemCreated worker: idle, or the listing its
                      \* FirstOrCreate found absent and is about to insert
    listings,         \* table listings, in insertion order (id = position)
    transactions,     \* table transactions, in insertion order
    schema,           \* how the tables were made: "sql" | "automigrate"
    processed,        \* the logs a worker has applied at least once
    reprocessed,      \* the logs a worker has applied more than once
    earlySales,       \* the sale logs applied while their listing was absent
    proc,             \* the backend process: "running" | "crashed" | "exited"
    calls,            \* per HTTP client: its request in flight, or the
                      \* response to its last request
    received,         \* per topic: the logs the listener has read from its
                      \* subscription since it was made
    applied,          \* per topic: of those, the ones whose event a worker
                      \* has taken from the event channel
    eventChan,        \* per topic: the event the listener is blocked sending
    handling,         \* per topic: the event its worker is applying
    retries,          \* per topic: failed subscriptions so far (saturating)
    platformFee,      \* contract: the fee in basis points
    itemsSold,        \* contract: _itemsSold
    balance,          \* the ether of every account, the contract's included
    getApproved,      \* NFT contract: the address approved for each token
    isApprovedForAll, \* NFT contract: the owners who made the marketplace
                      \* their operator
    receipt,          \* the outcome of the last transaction sent to the
                      \* marketplace contract
    userActiveListings, \* contract: per seller, the ids of their listings
    salesSinceWithdraw, \* the <<price, platformFee>> of every sale completed
                      \* since the fees were last withdrawn
    guardStatus,      \* contract: _status of its ReentrancyGuard
    frame,            \* the createMarketSale under way, while it has called
                      \* out to the seller or to the buyer
    ctxDone,          \* the context given to the listeners is cancelled
    subscriptions,    \* per topic: the subscriptions its listener has made
                      \* and not yet released with Unsubscribe
    closed,           \* per topic: how often its event channel was closed
    rangeEnded        \* per topic: the worker's range loop has ended

lifeVars == <<ctxDone, subscriptions, closed, rangeEnded>>

listenerVars == <<received, applied, eventChan, handling, retries, lifeVars>>

guardVars == <<guardStatus, frame>>

contractVars ==
    <<platformFee, itemsSold, balance, getApproved, isApprovedForAll, receipt,
      userActiveListings, salesSinceWithdraw, guardVars>>

vars == <<idToMarketItem, ownerOf, chainLog, sub, logs, createdWorker, listings,
          transactions, schema, processed, reprocessed, earlySales, proc,
          calls, received, applied, eventChan, handling, retries, platformFee,
          itemsSold, balance, getApproved, isApprovedForAll, receipt,
          userActiveListings, salesSinceWithdraw, guardStatus, frame,
          ctxDone, subscriptions, closed, rangeEnded>>

Topics == {"MarketItemCreated", "MarketItemSold"}

\* The HTTP clients that may have a request in flight at the same time, and
\* a client that has sent none.
Clients == {"client1", "client2"}
NoCall == [pc |-> "none"]
NoError == "nil"
Idle == [busy |-> FALSE]

\* ------------------------------------------------- the marketplace contract
\* The NFT collection the items come from: two tokens, minted to the two
\* users, the marketplace approved for all (the state the contract's tests
\* set up before listing).
Tokens == {1, 2}

\* idToMarketItem[itemId] of an id never written: Solidity's zero value.
ZeroItem ==
    [itemId |-> 0, nftContract |-> ZeroAddress, tokenId |-> 0,
     seller |-> ZeroAddress, owner |-> ZeroAddress, price |-> 0, sold |-> FALSE]

\* _itemIds: ids are handed out 1, 2, 3, ... so the counter is the length.
ItemIds == Len(idToMarketItem)

\* getMarketItem(itemId): a plain mapping read, no existence check.
getMarketItem(itemId) ==
    IF itemId \in 1..ItemIds THEN idToMarketItem[itemId] ELSE ZeroItem

\* emit: the log joins the chain's history and is pushed to the subscription
\* of its topic if one is live; a topic nobody streams gets nothing.
Emit(log) ==
    /\ chainLog' = chainLog \cup {log}
    /\ logs' = [t \in Topics |->
                  IF t = log.topics[1] /\ sub[t] = "streaming"
                  THEN Append(logs[t], log)
                  ELSE logs[t]]

\* address(this) of the marketplace and the account that deployed it, which
\* Ownable makes its owner.
Market == "addrMarket"
Deployer == "addrD"
Accounts == Users \cup {Deployer, Market}

DENOMINATOR == 10000

NoRevert == "none"
NoReceipt == [fn |-> "none", revert |-> NoRevert]
NoFrame == [pc |-> "none"]

\* ERC721._isApprovedOrOwner(address(this), tokenId): what safeTransferFrom
\* asks of its caller, the marketplace.
MarketMayTransfer(tokenId) ==
    \/ isApprovedForAll[ownerOf[tokenId]]
    \/ getApproved[tokenId] = Market

\* createMarketItem without its third require.
createMarketItemRevertUnapproved(caller, tokenId, price) ==
    IF price = 0 THEN "Price must be greater than 0"
    ELSE IF ownerOf[tokenId] # caller THEN "Not the owner"
    ELSE NoRevert

\* The require that stops createMarketItem, if any.
createMarketItemRevert(caller, tokenId, price) ==
    IF price = 0 THEN "Price must be greater than 0"
    ELSE IF ownerOf[tokenId] # caller THEN "Not the owner"
    ELSE IF ~(isApprovedForAll[caller] \/ getApproved[tokenId] = Market)
    THEN "Market not approved"
    ELSE NoRevert

\* A counter read before it is incremented: the id of the last item again.
NextItemIdStale == IF ItemIds = 0 THEN 1 ELSE ItemIds

\* ++_itemIds; itemId = _itemIds.
NextItemId == ItemIds + 1

createMarketItem(caller, tokenId, price) ==
    /\ createMarketItemRevert(caller, tokenId, price) = NoRevert
    /\ LET itemId == NextItemId IN
        /\ idToMarketItem' = Append(idToMarketItem,
               [itemId |-> itemId, nftContract |-> NftC1, tokenId |-> tokenId,
                seller |-> caller, owner |-> ZeroAddress, price |-> price,
                sold |-> FALSE])
        /\ Emit([topics |-> <<"MarketItemCreated", itemId, NftC1, tokenId>>,
                 data |-> <<caller, price>>])
        /\ userActiveListings'
              = [userActiveListings EXCEPT ![caller] = Append(@, itemId)]
    /\ UNCHANGED <<ownerOf, sub, createdWorker, listings, transactions, schema,
                   processed, reprocessed, earlySales>>
    /\ UNCHANGED <<proc, calls, listenerVars>>
    /\ UNCHANGED <<platformFee, itemsSold, balance, getApproved,
                   isApprovedForAll, salesSinceWithdraw, guardVars>>

\* createMarketSale without its third require: the seller may buy.
createMarketSaleRevertOwnItem(itemId, buyer, value) ==
    LET item == getMarketItem(itemId) IN
    IF item.sold THEN "Item already sold"
    ELSE IF value # item.price THEN "Incorrect price"
    ELSE IF item.price * platformFee > MaxUint THEN "Panic(0x11)"
    ELSE IF item.nftContract = ZeroAddress THEN "call to non-contract"
    ELSE IF ~MarketMayTransfer(item.tokenId)
    THEN "ERC721: caller is not token owner or approved"
    ELSE IF ownerOf[item.tokenId] # item.seller
    THEN "ERC721: transfer from incorrect owner"
    ELSE NoRevert

\* The require, the checked multiplication or the call that stops
\* createMarketSale, if any.  The sellers and buyers of the model are plain
\* accounts: the payment to the seller and the receiver check of
\* safeTransferFrom succeed.
createMarketSaleRevert(itemId, buyer, value) ==
    LET item == getMarketItem(itemId) IN
    IF item.sold THEN "Item already sold"
    ELSE IF value # item.price THEN "Incorrect price"
    ELSE IF item.seller = buyer THEN "Cannot buy own item"
    ELSE IF item.price * platformFee > MaxUint THEN "Panic(0x11)"
    ELSE IF item.nftContract = ZeroAddress
    THEN "call to non-contract"     \* no code at address(0)
    ELSE IF ~MarketMayTransfer(item.tokenId)
    THEN "ERC721: caller is not token owner or approved"
    ELSE IF ownerOf[item.tokenId] # item.seller
    THEN "ERC721: transfer from incorrect owner"
    ELSE NoRevert

\* _removeFromUserListings: the first entry equal to itemId is overwritten
\* with the last entry, and the last entry is popped.
removeFromUserListings(ids, itemId) ==
    IF \E k \in DOMAIN ids : ids[k] = itemId
    THEN LET i == CHOOSE k \in DOMAIN ids :
                     /\ ids[k] = itemId
                     /\ \A j \in 1..(k - 1) : ids[j] # itemId
         IN SubSeq([ids EXCEPT ![i] = ids[Len(ids)]], 1, Len(ids) - 1)
    ELSE ids

\* A fee rounded up instead of down.
PlatformFeeOfRoundedUp(price) ==
    (price * platformFee + DENOMINATOR - 1) \div DENOMINATOR

\* uint256 fee = (price * platformFee) / DENOMINATOR.
PlatformFeeOf(price) == (price * platformFee) \div DENOMINATOR

createMarketSale(itemId, buyer, value) ==
    LET item == getMarketItem(itemId)
        fee == PlatformFeeOf(item.price)
        sellerProceeds == item.price - fee
    IN
    /\ balance[buyer] >= value
    /\ createMarketSaleRevert(itemId, buyer, value) = NoRevert
    /\ balance' = [balance EXCEPT ![buyer] = @ - value,
                                  ![item.seller] = @ + sellerProceeds,
                                  ![Market] = @ + value - sellerProceeds]
    /\ ownerOf' = [ownerOf EXCEPT ![item.tokenId] = buyer]
    /\ getApproved' = [getApproved EXCEPT ![item.tokenId] = ZeroAddress]
    /\ idToMarketItem' = [idToMarketItem EXCEPT ![itemId].owner = buyer,
                                                ![itemId].sold = TRUE]
    /\ itemsSold' = itemsSold + 1
    /\ userActiveListings'
          = [userActiveListings EXCEPT
                ![item.seller] = removeFromUserListings(@, itemId)]
    /\ salesSinceWithdraw'
          = Append(salesSinceWithdraw, <<item.price, platformFee>>)
    /\ Emit([topics |-> <<"MarketItemSold", itemId, buyer>>,
             data |-> <<item.price>>])
    /\ UNCHANGED <<sub, createdWorker, listings, transactions, schema,
                   processed, reprocessed, earlySales>>
    /\ UNCHANGED <<proc, calls, listenerVars>>
    /\ UNCHANGED <<platformFee, isApprovedForAll, guardVars>>

\* cancelMarketItem without its first require: anybody may cancel.
cancelMarketItemRevertAnyCaller(itemId, caller) ==
    LET item == getMarketItem(itemId) IN
    IF item.sold \/ itemId \notin 1..ItemIds THEN "Item already sold"
    ELSE NoRevert

\* The require that stops cancelMarketItem, if any.
cancelMarketItemRevert(itemId, caller) ==
    LET item == getMarketItem(itemId) IN
    IF item.seller # caller THEN "Not the seller"
    ELSE IF item.sold THEN "Item already sold"
    ELSE NoRevert

cancelMarketItem(itemId, caller) ==
    LET item == getMarketItem(itemId) IN
    /\ cancelMarketItemRevert(itemId, caller) = NoRevert
    /\ idToMarketItem' = [idToMarketItem EXCEPT ![itemId].sold = TRUE,
                                                ![itemId].owner = item.seller]
    /\ userActiveListings'
          = [userActiveListings EXCEPT
                ![caller] = removeFromUserListings(@, itemId)]
    /\ Emit([topics |-> <<"MarketItemCanceled", itemId>>, data |-> <<>>])
    /\ UNCHANGED <<ownerOf, sub, createdWorker, listings, transactions, schema,
                   processed, reprocessed, earlySales>>
    /\ UNCHANGED <<proc, calls, listenerVars>>
    /\ UNCHANGED <<platformFee, itemsSold, balance, getApproved,
                   isApprovedForAll, salesSinceWithdraw, guardVars>>

\* updatePlatformFee without its require: the owner may set any fee.
updatePlatformFeeRevertUncapped(caller, newFee) ==
    IF caller # Deployer THEN "Ownable: caller is not the owner"
    ELSE NoRevert

\* The items that can be bought: created, neither sold nor cancelled.
Available == {i \in 1..ItemIds : ~idToMarketItem[i].sold}

\* fetchActiveItems(): an array of _itemIds - _itemsSold entries, filled from
\* the front with the items that are unsold and have no owner; the entries
\* left over keep the zero value of new memory.
fetchActiveItems ==
    LET unsold == SelectSeq(idToMarketItem,
                            LAMBDA it : ~it.sold /\ it.owner = ZeroAddress)
    IN [k \in 1..(ItemIds - itemsSold) |->
           IF k <= Len(unsold) THEN unsold[k] ELSE ZeroItem]

\* A fetchUserListings that returns every item the user has ever listed.
fetchUserListingsEverListed(user) ==
    SelectSeq(idToMarketItem, LAMBDA it : it.seller = user)

\* fetchUserListings(user): the items of userActiveListings[user] that are
\* not sold, in the order of that array.
fetchUserListings(user) ==
    LET itemIds == userActiveListings[user]
        active == SelectSeq(itemIds, LAMBDA id : ~idToMarketItem[id].sold)
    IN [k \in 1..Len(active) |-> idToMarketItem[active[k]]]

\* getMarketStats().
getMarketStats ==
    [totalItems |-> ItemIds, soldItems |-> itemsSold,
     activeItems |-> ItemIds - itemsSold]

\* onlyOwner, then the require of updatePlatformFee.
updatePlatformFeeRevert(caller, newFee) ==
    IF caller # Deployer THEN "Ownable: caller is not the owner"
    ELSE IF newFee > 1000 THEN "Fee too high"
    ELSE NoRevert

updatePlatformFee(caller, newFee) ==
    /\ updatePlatformFeeRevert(caller, newFee) = NoRevert
    /\ platformFee' = newFee
    /\ Emit([topics |-> <<"PlatformFeeUpdated">>, data |-> <<newFee>>])
    /\ UNCHANGED <<idToMarketItem, ownerOf, sub, createdWorker, listings,
                   transactions, schema, processed, reprocessed, earlySales>>
    /\ UNCHANGED <<proc, calls, listenerVars>>
    /\ UNCHANGED <<itemsSold, balance, getApproved, isApprovedForAll,
                   userActiveListings, salesSinceWithdraw, guardVars>>

\* withdrawFees without onlyOwner.
withdrawFeesRevertAnyCaller(caller) ==
    IF balance[Market] = 0 THEN "No funds to withdraw" ELSE NoRevert

\* onlyOwner, then the require of withdrawFees.  The owner is a plain
\* account: the transfer to it succeeds.
withdrawFeesRevert(caller) ==
    IF caller # Deployer THEN "Ownable: caller is not the owner"
    ELSE IF balance[Market] = 0 THEN "No funds to withdraw"
    ELSE NoRevert

\* A withdrawal that leaves one wei behind.
withdrawFeesLeavesDust(caller) ==
    /\ withdrawFeesRevert(caller) = NoRevert
    /\ balance' = [balance EXCEPT ![Deployer] = @ + balance[Market] - 1,
                                  ![Market] = 1]
    /\ salesSinceWithdraw' = <<>>
    /\ UNCHANGED <<idToMarketItem, ownerOf, chainLog, sub, logs, createdWorker,
                   listings, transactions, schema, processed, reprocessed,
                   earlySales, proc, calls, listenerVars>>
    /\ UNCHANGED <<platformFee, itemsSold, getApproved, isApprovedForAll,
                   userActiveListings, guardVars>>

\* payable(owner()).transfer(address(this).balance).
withdrawFees(caller) ==
    /\ withdrawFeesRevert(caller) = NoRevert
    /\ balance' = [balance EXCEPT ![Deployer] = @ + balance[Market],
                                  ![Market] = 0]
    /\ salesSinceWithdraw' = <<>>
    /\ UNCHANGED <<idToMarketItem, ownerOf, chainLog, sub, logs, createdWorker,
                   listings, transactions, schema, processed, reprocessed,
                   earlySales, proc, calls, listenerVars>>
    /\ UNCHANGED <<platformFee, itemsSold, getApproved, isApprovedForAll,
                   userActiveListings, guardVars>>

\* ERC721.approve of the NFT contract, by the token's owner, for the
\* marketplace or for nobody.
approve(caller, to, tokenId) ==
    /\ ownerOf[tokenId] = caller
    /\ getApproved' = [getApproved EXCEPT ![tokenId] = to]
    /\ UNCHANGED <<idToMarketItem, ownerOf, chainLog, sub, logs, createdWorker,
                   listings, transactions, schema, processed, reprocessed,
                   earlySales, proc, calls, listenerVars>>
    /\ UNCHANGED <<platformFee, itemsSold, balance, isApprovedForAll, receipt,
                   userActiveListings, salesSinceWithdraw, guardVars>>

\* ERC721.setApprovalForAll(marketplace, approved).
setApprovalForAll(caller, approved) ==
    /\ isApprovedForAll' = [isApprovedForAll EXCEPT ![caller] = approved]
    /\ UNCHANGED <<idToMarketItem, ownerOf, chainLog, sub, logs, createdWorker,
                   listings, transactions, schema, processed, reprocessed,
                   earlySales, proc, calls, listenerVars>>
    /\ UNCHANGED <<platformFee, itemsSold, balance, getApproved, receipt,
                   userActiveListings, salesSinceWithdraw, guardVars>>

\* A transaction that calls the marketplace: the call takes effect, or it
\* reverts and leaves only its receipt.
Reverted(fn, reason) ==
    /\ receipt' = [fn |-> fn, revert |-> reason]
    /\ UNCHANGED <<idToMarketItem, ownerOf, chainLog, sub, logs, createdWorker,
                   listings, transactions, schema, processed, reprocessed,
                   earlySales, proc, calls, listenerVars>>
    /\ UNCHANGED <<platformFee, itemsSold, balance, getApproved,
                   isApprovedForAll, userActiveListings, salesSinceWithdraw,
                   guardVars>>

TxCreateMarketItem(caller, tokenId, price) ==
    IF createMarketItemRevert(caller, tokenId, price) = NoRevert
    THEN /\ ItemIds < MaxListed
         /\ createMarketItem(caller, tokenId, price)
         /\ receipt' = [fn |-> "createMarketItem", revert |-> NoRevert]
    ELSE Reverted("createMarketItem",
                  createMarketItemRevert(caller, tokenId, price))

TxCreateMarketSale(itemId, buyer, value) ==
    /\ balance[buyer] >= value
    /\ IF createMarketSaleRevert(itemId, buyer, value) = NoRevert
       THEN /\ createMarketSale(itemId, buyer, value)
            /\ receipt' = [fn |-> "createMarketSale", revert |-> NoRevert]
       ELSE Reverted("createMarketSale",
                     createMarketSaleRevert(itemId, buyer, value))

TxCancelMarketItem(itemId, caller) ==
    IF cancelMarketItemRevert(itemId, caller) = NoRevert
    THEN /\ cancelMarketItem(itemId, caller)
         /\ receipt' = [fn |-> "cancelMarketItem", revert |-> NoRevert]
    ELSE Reverted("cancelMarketItem", cancelMarketItemRevert(itemId, caller))

TxUpdatePlatformFee(caller, newFee) ==
    IF updatePlatformFeeRevert(caller, newFee) = NoRevert
    THEN /\ updatePlatformFee(caller, newFee)
         /\ receipt' = [fn |-> "updatePlatformFee", revert |-> NoRevert]
    ELSE Reverted("updatePlatformFee", updatePlatformFeeRevert(caller, newFee))

TxWithdrawFees(caller) ==
    IF withdrawFeesRevert(caller) = NoRevert
    THEN /\ withdrawFees(caller)
         /\ receipt' = [fn |-> "withdrawFees", revert |-> NoRevert]
    ELSE Reverted("withdrawFees", withdrawFeesRevert(caller))

\* ------------------------------------------- createMarketSale, call by call
\* createMarketSale hands control to the seller (the payment, a call with all
\* the gas) and to the buyer (onERC721Received, from safeTransferFrom) before
\* it marks the item sold. Either may be a contract, and may call the
\* marketplace or the NFT contract before it returns.

\* A marketplace without its ReentrancyGuard.
nonReentrantRevertOff == NoRevert

\* modifier nonReentrant: require(_status != _ENTERED).
nonReentrantRevert ==
    IF guardStatus = "ENTERED" THEN "ReentrancyGuard: reentrant call"
    ELSE NoRevert

\* The requires and the fee computation, before the first external call.
createMarketSaleChecks(itemId, buyer, value) ==
    LET item == getMarketItem(itemId) IN
    IF item.sold THEN "Item already sold"
    ELSE IF value # item.price THEN "Incorrect price"
    ELSE IF item.seller = buyer THEN "Cannot buy own item"
    ELSE IF item.price * platformFee > MaxUint THEN "Panic(0x11)"
    ELSE NoRevert

\* What stops IERC721(item.nftContract).safeTransferFrom(seller, ...) before
\* it moves the token.
safeTransferFromRevert(item) ==
    IF item.nftContract = ZeroAddress THEN "call to non-contract"
    ELSE IF ~MarketMayTransfer(item.tokenId)
    THEN "ERC721: caller is not token owner or approved"
    ELSE IF ownerOf[item.tokenId] # item.seller
    THEN "ERC721: transfer from incorrect owner"
    ELSE NoRevert

\* The state a revert of the transaction goes back to.
Snapshot ==
    [idToMarketItem |-> idToMarketItem, ownerOf |-> ownerOf,
     chainLog |-> chainLog, logs |-> logs, balance |-> balance,
     getApproved |-> getApproved, isApprovedForAll |-> isApprovedForAll,
     itemsSold |-> itemsSold, userActiveListings |-> userActiveListings,
     platformFee |-> platformFee, salesSinceWithdraw |-> salesSinceWithdraw]

\* The sale under way reverts: everything done since it began is undone.
RevertSale(reason) ==
    /\ idToMarketItem' = frame.saved.idToMarketItem
    /\ ownerOf' = frame.saved.ownerOf
    /\ chainLog' = frame.saved.chainLog
    /\ logs' = frame.saved.logs
    /\ balance' = frame.saved.balance
    /\ getApproved' = frame.saved.getApproved
    /\ isApprovedForAll' = frame.saved.isApprovedForAll
    /\ itemsSold' = frame.saved.itemsSold
    /\ userActiveListings' = frame.saved.userActiveListings
    /\ platformFee' = frame.saved.platformFee
    /\ salesSinceWithdraw' = frame.saved.salesSinceWithdraw
    /\ guardStatus' = "NOT_ENTERED"
    /\ frame' = NoFrame
    /\ receipt' = [fn |-> "createMarketSale", revert |-> reason]
    /\ UNCHANGED <<sub, createdWorker, listings, transactions, schema,
                   processed, reprocessed, earlySales, proc, calls,
                   listenerVars>>

\* createMarketSale up to item.seller.call{value: sellerProceeds}(""): the
\* guard is entered, the requires pass, the value has arrived and the
\* proceeds have left; the seller's code runs.
SaleEnter(itemId, buyer, value) ==
    LET item == getMarketItem(itemId)
        fee == PlatformFeeOf(item.price)
        sellerProceeds == item.price - fee
    IN
    /\ frame = NoFrame
    /\ balance[buyer] >= value
    /\ IF createMarketSaleChecks(itemId, buyer, value) # NoRevert
       THEN Reverted("createMarketSale",
                     createMarketSaleChecks(itemId, buyer, value))
       ELSE /\ guardStatus' = "ENTERED"
            /\ balance' = [balance EXCEPT ![buyer] = @ - value,
                                          ![item.seller] = @ + sellerProceeds,
                                          ![Market] = @ + value - sellerProceeds]
            /\ frame' = [pc |-> "seller", itemId |-> itemId, buyer |-> buyer,
                         fee |-> platformFee, saved |-> Snapshot]
            /\ UNCHANGED <<idToMarketItem, ownerOf, chainLog, sub, logs,
                           createdWorker, listings, transactions, schema,
                           processed, reprocessed, earlySales, proc, calls,
                           listenerVars>>
            /\ UNCHANGED <<platformFee, itemsSold, getApproved,
                           isApprovedForAll, receipt, userActiveListings,
                           salesSinceWithdraw>>

\* The seller's code returns: require(success), then safeTransferFrom moves
\* the token and calls the buyer.
SellerReturns(success) ==
    LET item == getMarketItem(frame.itemId) IN
    /\ frame.pc = "seller"
    /\ IF ~success THEN RevertSale("Transfer to seller failed")
       ELSE IF safeTransferFromRevert(item) # NoRevert
       THEN RevertSale(safeTransferFromRevert(item))
       ELSE /\ ownerOf' = [ownerOf EXCEPT ![item.tokenId] = frame.buyer]
            /\ getApproved' = [getApproved EXCEPT ![item.tokenId] = ZeroAddress]
            /\ frame' = [frame EXCEPT !.pc = "buyer"]
            /\ UNCHANGED <<idToMarketItem, chainLog, sub, logs, createdWorker,
                           listings, transactions, schema, processed,
                           reprocessed, earlySales, proc, calls, listenerVars>>
            /\ UNCHANGED <<platformFee, itemsSold, balance, isApprovedForAll,
                           receipt, userActiveListings, salesSinceWithdraw,
                           guardStatus>>

\* The buyer's onERC721Received returns: the item is marked sold, the
\* counter and the seller's listings are updated, MarketItemSold is emitted
\* and the guard is left.
BuyerReturns(accepted) ==
    LET item == getMarketItem(frame.itemId) IN
    /\ frame.pc = "buyer"
    /\ IF ~accepted
       THEN RevertSale("ERC721: transfer to non ERC721Receiver implementer")
       ELSE /\ idToMarketItem'
                  = [idToMarketItem EXCEPT ![frame.itemId].owner = frame.buyer,
                                           ![frame.itemId].sold = TRUE]
            /\ itemsSold' = itemsSold + 1
            /\ userActiveListings'
                  = [userActiveListings EXCEPT
                        ![item.seller] = removeFromUserListings(@, frame.itemId)]
            /\ salesSinceWithdraw'
                  = Append(salesSinceWithdraw, <<item.price, frame.fee>>)
            /\ Emit([topics |-> <<"MarketItemSold", frame.itemId, frame.buyer>>,
                     data |-> <<item.price>>])
            /\ guardStatus' = "NOT_ENTERED"
            /\ frame' = NoFrame
            /\ receipt' = [fn |-> "createMarketSale", revert |-> NoRevert]
            /\ UNCHANGED <<ownerOf, sub, createdWorker, listings, transactions,
                           schema, processed, reprocessed, earlySales, proc,
                           calls, listenerVars>>
            /\ UNCHANGED <<platformFee, balance, getApproved,
                           isApprovedForAll>>

\* The contract whose code is running inside the sale under way.
Callee ==
    IF frame.pc = "seller" THEN getMarketItem(frame.itemId).seller
    ELSE frame.buyer

\* Calls the callee makes to the marketplace before it returns. It catches a
\* revert of its call, so the sale goes on.
ReenterCreateMarketItem(tokenId, price) ==
    /\ frame # NoFrame
    /\ IF nonReentrantRevert # NoRevert
       THEN Reverted("createMarketItem", nonReentrantRevert)
       ELSE TxCreateMarketItem(Callee, tokenId, price)

ReenterCreateMarketSale(itemId, value) ==
    /\ frame # NoFrame
    /\ IF nonReentrantRevert # NoRevert
       THEN Reverted("createMarketSale", nonReentrantRevert)
       ELSE TxCreateMarketSale(itemId, Callee, value)

ReenterCancelMarketItem(itemId) ==
    /\ frame # NoFrame
    /\ IF nonReentrantRevert # NoRevert
       THEN Reverted("cancelMarketItem", nonReentrantRevert)
       ELSE TxCancelMarketItem(itemId, Callee)

\* A call the callee makes to the NFT contract, which has no guard.
ReenterApprove(to, tokenId) ==
    /\ frame # NoFrame
    /\ approve(Callee, to, tokenId)

\* ------------------------------------------------------------ the database
\* A listings table with no unique index on item_id.
ItemIdUniqueDropped(table, row) == TRUE

\* listings.item_id is UNIQUE (schema) / uniqueIndex (GORM tag): the INSERT of
\* a row whose item_id is already in the table fails.
ItemIdUnique(table, row) ==
    \A i \in DOMAIN table : table[i].itemId # row.itemId

\* price::NUMERIC succeeds on decimal digits only.
IsNumeric(s) == s \in {"0", "1", "2", "3", "20", "100", "200"}

\* sync_listings_price_numeric, BEFORE INSERT OR UPDATE ON listings: casts
\* NEW.price; a price that is not a number aborts the statement.  The trigger
\* exists only in a database made from the SQL schema.
ListingsTriggerOk(row) == schema = "sql" => IsNumeric(row.price)

\* sync_transactions_value_numeric, BEFORE INSERT OR UPDATE ON transactions
\* WHEN (NEW.value IS NOT NULL): runs sync_price_numeric(), which reads
\* NEW.price; transactions has no price column, so the function raises
\* 'record "new" has no field "price"' and the statement aborts.  A Go string
\* is never NULL, so the WHEN clause holds for every row GORM writes.
TransactionsTriggerOk(row) == schema # "sql"

\* transactions.tx_hash is NOT NULL UNIQUE / uniqueIndex;not null.
TxHashUnique(table, row) ==
    \A i \in DOMAIN table : table[i].txHash # row.txHash

\* Create as an upsert on item_id (ON CONFLICT DO UPDATE): a row that is
\* already there is overwritten by the submitted one.
ListingRepositoryCreateUpsert(table, listing) ==
    IF ~ListingsTriggerOk(listing)
    THEN [err |-> "invalid numeric", rows |-> table]
    ELSE IF ~ItemIdUnique(table, listing)
    THEN [err |-> NoError,
          rows |-> [i \in DOMAIN table |->
                      IF table[i].itemId = listing.itemId
                      THEN [listing EXCEPT !.id = table[i].id]
                      ELSE table[i]]]
    ELSE [err |-> NoError,
          rows |-> Append(table, [listing EXCEPT !.id = Len(table) + 1])]

\* ListingRepository.Create: db.Create(listing), one INSERT; the id is the
\* BIGSERIAL primary key.
ListingRepositoryCreate(table, listing) ==
    IF ~ListingsTriggerOk(listing)
    THEN [err |-> "invalid numeric", rows |-> table]
    ELSE IF ~ItemIdUnique(table, listing)
    THEN [err |-> "duplicate key", rows |-> table]
    ELSE [err |-> NoError,
          rows |-> Append(table, [listing EXCEPT !.id = Len(table) + 1])]

\* ListingRepository.CreateIfNotExists, first half: FirstOrCreate's
\* SELECT ... WHERE item_id = ? LIMIT 1.
FirstOrCreateFound(table, listing) ==
    \E i \in DOMAIN table : table[i].itemId = listing.itemId

\* FirstOrCreate with Assign(listing): the row that is found is rewritten
\* with the event's values.
CreateIfNotExistsAssign(table, listing) ==
    [i \in DOMAIN table |->
        IF table[i].itemId = listing.itemId
        THEN [listing EXCEPT !.id = table[i].id]
        ELSE table[i]]

\* ListingRepository.CreateIfNotExists when the SELECT found the row: the row
\* is read into the argument and nothing is written.
CreateIfNotExistsFound(table, listing) == table

\* TransactionRepository.Create: db.Create(tx), one INSERT.
TransactionRepositoryCreate(table, tx) ==
    IF ~TransactionsTriggerOk(tx)
    THEN [err |-> "no field price", rows |-> table]
    ELSE IF ~TxHashUnique(table, tx)
    THEN [err |-> "duplicate key", rows |-> table]
    ELSE [err |-> NoError,
          rows |-> Append(table, [tx EXCEPT !.id = Len(table) + 1])]

\* TransactionRepository.Update: db.Save(tx).  With a primary key set it is
\* an UPDATE of every column WHERE id = tx.ID; with none it is an INSERT.
TransactionRepositoryUpdate(table, tx) ==
    IF tx.id \notin DOMAIN table
    THEN TransactionRepositoryCreate(table, tx)
    ELSE IF ~TransactionsTriggerOk(tx)
    THEN [err |-> "no field price", rows |-> table]
    ELSE IF \E i \in DOMAIN table : i # tx.id /\ table[i].txHash = tx.txHash
    THEN [err |-> "duplicate key", rows |-> table]
    ELSE [err |-> NoError, rows |-> [table EXCEPT ![tx.id] = tx]]

\* TransactionRepository.UpdateStatus: UPDATE transactions SET status = ?
\* WHERE id = ?; no condition on the current status.
TransactionRepositoryUpdateStatus(table, id, status) ==
    IF id \notin DOMAIN table
    THEN [err |-> NoError, rows |-> table]
    ELSE IF ~TransactionsTriggerOk(table[id])
    THEN [err |-> "no field price", rows |-> table]
    ELSE [err |-> NoError, rows |-> [table EXCEPT ![id].status = status]]

\* ListingRepository.UpdateStatus: UPDATE listings SET status = ? [, sold_at]
\* WHERE id = ?; no condition on the current status.
UpdateStatus(table, id, status) ==
    [i \in DOMAIN table |->
        IF table[i].id = id
        THEN [table[i] EXCEPT !.status = status,
                              !.soldAt = IF status = "sold" THEN "set" ELSE @]
        ELSE table[i]]

\* ------------------------------------------------------- blockchain client
\* json.Marshal of a common.Address: lower-case hex text.
MarshalAddress(a) ==
    CASE a = UserA -> "0xaa"
      [] a = UserB -> "0xbb"
      [] a = NftC1 -> "0xc1"
      [] OTHER     -> "0x00"

\* Client.GetMarketItem: eth_call of getMarketItem, the returned tuple turned
\* into a map through JSON.
GetMarketItem(itemId) ==
    LET item == getMarketItem(itemId) IN
    [itemId |-> item.itemId, nftContract |-> MarshalAddress(item.nftContract),
     tokenId |-> item.tokenId, seller |-> MarshalAddress(item.seller),
     owner |-> MarshalAddress(item.owner), price |-> item.price,
     sold |-> item.sold]

\* ListenMarketItemCreated, the log case: seller and price come from the data,
\* itemId, nftContract and tokenId from topics 1..3 (topic 0 is the signature).
DecodeCreated(log) ==
    [itemId |-> log.topics[2], nftContract |-> log.topics[3],
     tokenId |-> log.topics[4], seller |-> log.data[1], price |-> log.data[2]]

\* ListenMarketItemSold, the log case.
DecodeSold(log) ==
    [itemId |-> log.topics[2], buyer |-> log.topics[3], price |-> log.data[1]]

\* SubscribeFilterLogs succeeds: a fresh logs channel, fed from now on.
Subscribe(t) ==
    /\ proc = "running"
    /\ sub[t] = "disconnected"
    /\ sub' = [sub EXCEPT ![t] = "streaming"]
    /\ logs' = [logs EXCEPT ![t] = <<>>]
    /\ UNCHANGED <<idToMarketItem, ownerOf, chainLog, createdWorker, listings,
                   transactions, schema, processed, reprocessed, earlySales>>
    /\ UNCHANGED <<proc, calls, listenerVars, contractVars>>

\* case err := <-sub.Err(): Unsubscribe, sleep, leave the event loop.  The
\* logs channel of the dead subscription is dropped with what it still held.
SubscriptionError(t) ==
    /\ proc = "running"
    /\ sub[t] = "streaming"
    /\ sub' = [sub EXCEPT ![t] = "disconnected"]
    /\ logs' = [logs EXCEPT ![t] = <<>>]
    /\ UNCHANGED <<idToMarketItem, ownerOf, chainLog, createdWorker, listings,
                   transactions, schema, processed, reprocessed, earlySales>>
    /\ UNCHANGED <<proc, calls, listenerVars, contractVars>>

\* The node pushes a log a second time (the feed is at-least-once): one that
\* the backend has already applied.
Redeliver(t, log) ==
    /\ proc = "running"
    /\ sub[t] = "streaming"
    /\ Len(logs[t]) < MaxPending
    /\ log \in processed
    /\ log.topics[1] = t
    /\ logs' = [logs EXCEPT ![t] = Append(@, log)]
    /\ UNCHANGED <<idToMarketItem, ownerOf, chainLog, sub, createdWorker, listings,
                   transactions, schema, processed, reprocessed, earlySales>>
    /\ UNCHANGED <<proc, calls, listenerVars, contractVars>>

\* ---------------------------------------------------------------- services
\* The row UpdateFromEvent builds from a MarketItemCreated event.  The Listing
\* struct has no Buyer field: the buyer column stays NULL in every row written.
EventListing(event) ==
    [id |-> 0, itemId |-> event.itemId, nftContract |-> Hex(event.nftContract),
     tokenId |-> String(event.tokenId), seller |-> Hex(event.seller),
     price |-> String(event.price), status |-> "active", txHash |-> "",
     buyer |-> "null", soldAt |-> "null"]

\* The row CreateListing builds from the request body, as submitted.
RequestListing(req) ==
    [id |-> 0, itemId |-> req.itemId, nftContract |-> req.nftContract,
     tokenId |-> req.tokenId, seller |-> req.seller, price |-> req.price,
     status |-> "active", txHash |-> req.txHash, buyer |-> "null",
     soldAt |-> "null"]

\* The row RecordSale builds from a MarketItemSold event.
SaleTransaction(event) ==
    [id |-> 0, txHash |-> "", blockNumber |-> 0, txType |-> "sale",
     nftContract |-> "", tokenId |-> "", fromAddress |-> Hex(event.buyer),
     toAddress |-> Hex(event.buyer), value |-> String(event.price),
     valueNumeric |-> String(event.price), status |-> "confirmed",
     logIndex |-> 0]

Requests ==
    [itemId : 1..MaxItems, nftContract : ReqNFTContracts, tokenId : ReqTokenIds,
     seller : ReqSellers, price : ReqPrices, txHash : {ReqTxHash}]

\* A service that takes the submitted nftContract on trust.
VerifiedSkipped(req) == TRUE

\* CreateListing's verification: the one comparison made with the chain.
Verified(req) ==
    HexToAddress(GetMarketItem(req.itemId).nftContract)
        = HexToAddress(req.nftContract)

\* The error ListingService.CreateListing returns; rpcOk is whether the
\* eth_call went through.
CreateListingErr(req, rpcOk) ==
    IF ~rpcOk THEN "failed to verify on-chain data"
    ELSE IF ~Verified(req) THEN "nft contract mismatch"
    ELSE IF ListingRepositoryCreate(listings, RequestListing(req)).err # NoError
    THEN "failed to create listing"
    ELSE NoError

\* ListingService.CreateListing; what the caller gets back is the handler's
\* part (PostListing).
CreateListing(req, rpcOk) ==
    /\ proc = "running"
    /\ listings' = IF rpcOk /\ Verified(req)
                   THEN ListingRepositoryCreate(listings, RequestListing(req)).rows
                   ELSE listings
    /\ UNCHANGED <<idToMarketItem, ownerOf, chainLog, sub, logs, createdWorker,
                   transactions, schema, processed, reprocessed, earlySales>>
    /\ UNCHANGED <<proc, listenerVars, contractVars>>

\* A CancelListing that does not compare the sellers.
CancelListingErrAnySeller(id, seller) ==
    IF id \notin DOMAIN listings THEN "failed to get listing"
    ELSE IF listings[id].status # "active" THEN "listing is not active"
    ELSE NoError

\* The error ListingService.CancelListing(id, seller) returns.
CancelListingErr(id, seller) ==
    IF id \notin DOMAIN listings THEN "failed to get listing"
    ELSE IF listings[id].seller # seller THEN "unauthorized: not the seller"
    ELSE IF listings[id].status # "active" THEN "listing is not active"
    ELSE NoError

\* ListingService.CancelListing: GetByID, the two checks, UpdateStatus.
CancelListing(id, seller) ==
    /\ proc = "running"
    /\ listings' = IF CancelListingErr(id, seller) = NoError
                   THEN UpdateStatus(listings, id, "cancelled")
                   ELSE listings
    /\ UNCHANGED <<idToMarketItem, ownerOf, chainLog, sub, logs, createdWorker,
                   transactions, schema, processed, reprocessed, earlySales>>
    /\ UNCHANGED <<proc, calls, listenerVars, contractVars>>

\* The MarketItemCreated worker takes the next event and runs UpdateFromEvent
\* up to FirstOrCreate's SELECT; a row that is found ends the call.
UpdateFromEvent ==
    /\ proc = "running"
    /\ ~createdWorker.busy
    /\ logs["MarketItemCreated"] # <<>>
    /\ LET log == Head(logs["MarketItemCreated"])
           listing == EventListing(DecodeCreated(log))
       IN  IF FirstOrCreateFound(listings, listing)
           THEN /\ listings' = CreateIfNotExistsFound(listings, listing)
                /\ processed' = processed \cup {log}
                /\ reprocessed' = reprocessed \cup ({log} \cap processed)
                /\ UNCHANGED createdWorker
           ELSE /\ createdWorker' = [busy |-> TRUE, log |-> log, listing |-> listing]
                /\ UNCHANGED <<listings, processed, reprocessed>>
    /\ logs' = [logs EXCEPT !["MarketItemCreated"] = Tail(@)]
    /\ UNCHANGED <<idToMarketItem, ownerOf, chainLog, sub, transactions, schema,
                   earlySales>>
    /\ UNCHANGED <<proc, calls, listenerVars, contractVars>>

\* FirstOrCreate's INSERT, when the SELECT found no row.
FirstOrCreateInsert ==
    /\ proc = "running"
    /\ createdWorker.busy
    /\ listings' = ListingRepositoryCreate(listings, createdWorker.listing).rows
    /\ processed' = processed \cup {createdWorker.log}
    /\ reprocessed' = reprocessed \cup ({createdWorker.log} \cap processed)
    /\ createdWorker' = Idle
    /\ UNCHANGED <<idToMarketItem, ownerOf, chainLog, sub, logs, transactions,
                   schema, earlySales>>
    /\ UNCHANGED <<proc, calls, listenerVars, contractVars>>

\* The MarketItemSold worker takes the next event and runs RecordSale.
RecordSale ==
    /\ proc = "running"
    /\ logs["MarketItemSold"] # <<>>
    /\ LET log == Head(logs["MarketItemSold"]) IN
        /\ transactions' = TransactionRepositoryCreate(
               transactions, SaleTransaction(DecodeSold(log))).rows
        /\ processed' = processed \cup {log}
        /\ reprocessed' = reprocessed \cup ({log} \cap processed)
        /\ earlySales' =
               IF \E i \in DOMAIN listings : listings[i].itemId = log.topics[2]
               THEN earlySales ELSE earlySales \cup {log}
    /\ logs' = [logs EXCEPT !["MarketItemSold"] = Tail(@)]
    /\ UNCHANGED <<idToMarketItem, ownerOf, chainLog, sub, createdWorker, listings,
                   schema>>
    /\ UNCHANGED <<proc, calls, listenerVars, contractVars>>

\* ---------------------------------------------------------------- handlers
\* ListingHandler.CreateListing (POST /listings): binds the body, calls the
\* service and answers 201, or 500 with the service's error.
PostListing(c, req, rpcOk) ==
    /\ calls[c].pc # "checked"
    /\ CreateListing(req, rpcOk)
    /\ calls' = [calls EXCEPT ![c] =
                    [pc |-> "done", op |-> "create", req |-> req,
                     rpcOk |-> rpcOk, err |-> CreateListingErr(req, rpcOk)]]

\* ListingHandler.CancelListing (DELETE /listings/:id) up to the end of the
\* service's checks: GetByID reads the row, seller and status are compared.
\* A failed check is answered at once.
CancelListingGetByID(c, id, seller) ==
    /\ proc = "running"
    /\ calls[c].pc # "checked"
    /\ calls' = [calls EXCEPT ![c] =
                    IF CancelListingErr(id, seller) = NoError
                    THEN [pc |-> "checked", op |-> "cancel", id |-> id]
                    ELSE [pc |-> "done", op |-> "cancel", id |-> id,
                          err |-> CancelListingErr(id, seller)]]
    /\ UNCHANGED <<idToMarketItem, ownerOf, chainLog, sub, logs, createdWorker,
                   listings, transactions, schema, processed, reprocessed,
                   earlySales, proc, listenerVars, contractVars>>

\* The rest of the call: UpdateStatus(id, "cancelled"), a separate statement
\* outside any database transaction, then 200.
CancelListingUpdateStatus(c) ==
    /\ proc = "running"
    /\ calls[c].pc = "checked"
    /\ listings' = UpdateStatus(listings, calls[c].id, "cancelled")
    /\ calls' = [calls EXCEPT ![c] =
                    [pc |-> "done", op |-> "cancel", id |-> calls[c].id,
                     err |-> NoError]]
    /\ UNCHANGED <<idToMarketItem, ownerOf, chainLog, sub, logs, createdWorker,
                   transactions, schema, processed, reprocessed, earlySales,
                   proc, listenerVars, contractVars>>

\* ------------------------------------------------------------- statistics
\* CAST(x AS NUMERIC) of a decimal text.
CastNumeric(str) ==
    CASE str = "0"   -> 0
      [] str = "1"   -> 1
      [] str = "2"   -> 2
      [] str = "3"   -> 3
      [] str = "20"  -> 20
      [] str = "100" -> 100
      [] str = "200" -> 200

RECURSIVE Sum(_)
Sum(seq) == IF seq = <<>> THEN 0 ELSE Head(seq) + Sum(Tail(seq))

\* ListingRepository.GetTotalVolume: COALESCE(SUM(CAST(price AS NUMERIC)), 0)
\* over the listings WHERE status = 'sold', scanned into a string.
ListingRepositoryGetTotalVolume ==
    LET sold == SelectSeq(listings, LAMBDA l : l.status = "sold") IN
    String(Sum([i \in DOMAIN sold |-> CastNumeric(sold[i].price)]))

\* TransactionRepository.GetTotalVolume (what TransactionService.GetTotalVolume
\* returns): COALESCE(SUM(CAST(value_numeric AS NUMERIC)), 0) over the
\* transactions WHERE tx_type = 'sale' AND status = 'confirmed'.
TransactionRepositoryGetTotalVolume ==
    LET sales == SelectSeq(transactions,
                           LAMBDA tx : tx.txType = "sale"
                                       /\ tx.status = "confirmed") IN
    String(Sum([i \in DOMAIN sales |-> CastNumeric(sales[i].valueNumeric)]))

CountActiveListings ==
    Len(SelectSeq(listings, LAMBDA l : l.status = "active"))

\* The prices of the listings WHERE status = 'active'.
ActivePrices ==
    {listings[i].price : i \in {j \in DOMAIN listings :
                                   listings[j].status = "active"}}

\* How the database orders the decimal texts of the model as text: character
\* by character, so "100" comes before "20" and "20" before "3".
TextRank(str) ==
    CASE str = "0"   -> 1
      [] str = "1"   -> 2
      [] str = "100" -> 3
      [] str = "2"   -> 4
      [] str = "20"  -> 5
      [] str = "200" -> 6
      [] str = "3"   -> 7
      [] OTHER       -> 8

\* The floor price as the SQL function calculate_floor_price takes it:
\* MIN(price) over the VARCHAR column, the smallest text.
ListingRepositoryGetMinPriceText ==
    IF ActivePrices = {} THEN "0"
    ELSE CHOOSE m \in ActivePrices :
            \A x \in ActivePrices : TextRank(m) <= TextRank(x)

\* ListingRepository.GetMinPrice: COALESCE(MIN(CAST(price AS NUMERIC)), 0)
\* over the listings WHERE status = 'active', scanned into a string.
ListingRepositoryGetMinPrice ==
    IF ActivePrices = {} THEN "0"
    ELSE LET nums == {CastNumeric(x) : x \in ActivePrices} IN
         String(CHOOSE m \in nums : \A x \in nums : m <= x)

\* The error of GetMarketStats: a price that is no number makes CAST fail,
\* in GetTotalVolume for a sold listing, else in GetAveragePrice, the first
\* aggregate over the active listings.
GetMarketStatsErr ==
    IF \E i \in DOMAIN listings :
          listings[i].status = "sold" /\ ~IsNumeric(listings[i].price)
    THEN "failed to get total volume"
    ELSE IF \E x \in ActivePrices : ~IsNumeric(x)
    THEN "failed to get average price"
    ELSE NoError

\* ListingService.GetMarketStats (GET /stats), the figures that depend on the
\* tables modelled here.
GetMarketStats ==
    [active_listings |-> CountActiveListings,
     total_listings |-> Len(listings),
     sold_listings |-> Len(listings) - CountActiveListings,
     total_volume |-> ListingRepositoryGetTotalVolume,
     floor_price |-> ListingRepositoryGetMinPrice]

\* --------------------------------------------------------------- listeners
\* The two listeners (ListenMarketItemCreated, ListenMarketItemSold) and their
\* workers in startEventListener, step by step.  The node may push any log
\* that carries the event's signature as topic 0.
CreatedFeed ==
    {[topics |-> <<"MarketItemCreated", 1, NftC1, t>>, data |-> <<UserA, 100>>] :
        t \in Tokens}

SoldFeed ==
    {[topics |-> <<"MarketItemSold", 1, b>>, data |-> <<100>>] : b \in Users}

\* A log whose data is not the event's non-indexed arguments, and one that
\* lacks the indexed topics.
BadPayload(t) ==
    IF t = "MarketItemCreated"
    THEN [topics |-> <<t, 1, NftC1, 1>>, data |-> <<>>]
    ELSE [topics |-> <<t, 1, UserA>>, data |-> <<>>]

MissingTopics(t) ==
    IF t = "MarketItemCreated"
    THEN [topics |-> <<t>>, data |-> <<UserA, 100>>]
    ELSE [topics |-> <<t>>, data |-> <<100>>]

FeedLogs(t) ==
    (IF t = "MarketItemCreated" THEN CreatedFeed ELSE SoldFeed)
        \cup {BadPayload(t), MissingTopics(t)}

\* contractABI.UnpackIntoInterface(event, name, vLog.Data) returns no error.
Unpacks(t, log) ==
    Len(log.data) = IF t = "MarketItemCreated" THEN 2 ELSE 1

\* vLog.Topics[1], [2] (and [3]) exist.
HasTopics(t, log) ==
    Len(log.topics) >= IF t = "MarketItemCreated" THEN 4 ELSE 3

\* Top of the outer loop, the context not cancelled: SubscribeFilterLogs.  On
\* an error the listener logs it and goes to sleep.
SubscribeFilterLogs(t, ok) ==
    /\ proc = "running"
    /\ sub[t] = "disconnected"
    /\ ~ctxDone
    /\ IF ok
       THEN /\ sub' = [sub EXCEPT ![t] = "streaming"]
            /\ subscriptions' = [subscriptions EXCEPT ![t] = @ + 1]
            /\ received' = [received EXCEPT ![t] = <<>>]
            /\ applied' = [applied EXCEPT ![t] = <<>>]
            /\ UNCHANGED retries
       ELSE /\ sub' = [sub EXCEPT ![t] = "backoff"]
            /\ retries' = [retries EXCEPT
                             ![t] = IF @ < MaxRetries THEN @ + 1 ELSE @]
            /\ UNCHANGED <<received, applied, subscriptions>>
    /\ UNCHANGED <<ctxDone, closed, rangeEnded>>
    /\ UNCHANGED <<idToMarketItem, ownerOf, chainLog, logs, createdWorker,
                   listings, transactions, schema, processed, reprocessed,
                   earlySales, proc, calls, eventChan, handling>>
    /\ UNCHANGED contractVars

\* A listener whose subscription error ends it instead of sending it back to
\* subscribe again.
SubErrReturns(t) ==
    /\ proc = "running"
    /\ sub[t] = "streaming"
    /\ eventChan[t] = <<>>
    /\ sub' = [sub EXCEPT ![t] = "stopped"]
    /\ retries' = [retries EXCEPT ![t] = IF @ < MaxRetries THEN @ + 1 ELSE @]
    /\ subscriptions' = [subscriptions EXCEPT ![t] = @ - 1]
    /\ UNCHANGED <<idToMarketItem, ownerOf, chainLog, logs, createdWorker,
                   listings, transactions, schema, processed, reprocessed,
                   earlySales, proc, calls, received, applied, eventChan,
                   handling>>
    /\ UNCHANGED <<ctxDone, closed, rangeEnded>>
    /\ UNCHANGED contractVars

\* A listener that goes back to subscribe without Unsubscribe.
SubErrKeepsSubscription(t) ==
    /\ proc = "running"
    /\ sub[t] = "streaming"
    /\ eventChan[t] = <<>>
    /\ sub' = [sub EXCEPT ![t] = "backoff"]
    /\ retries' = [retries EXCEPT ![t] = IF @ < MaxRetries THEN @ + 1 ELSE @]
    /\ UNCHANGED <<idToMarketItem, ownerOf, chainLog, logs, createdWorker,
                   listings, transactions, schema, processed, reprocessed,
                   earlySales, proc, calls, received, applied, eventChan,
                   handling, lifeVars>>
    /\ UNCHANGED contractVars

\* case err := <-sub.Err(): Unsubscribe, then sleep.  The listener is in
\* its select only while it is not blocked sending an event.
SubErr(t) ==
    /\ proc = "running"
    /\ sub[t] = "streaming"
    /\ eventChan[t] = <<>>
    /\ sub' = [sub EXCEPT ![t] = "backoff"]
    /\ retries' = [retries EXCEPT ![t] = IF @ < MaxRetries THEN @ + 1 ELSE @]
    /\ subscriptions' = [subscriptions EXCEPT ![t] = @ - 1]
    /\ UNCHANGED <<idToMarketItem, ownerOf, chainLog, logs, createdWorker,
                   listings, transactions, schema, processed, reprocessed,
                   earlySales, proc, calls, received, applied, eventChan,
                   handling>>
    /\ UNCHANGED <<ctxDone, closed, rangeEnded>>
    /\ UNCHANGED contractVars

\* time.Sleep(5 * time.Second) is over: continue / break eventLoop, back to
\* the top of the outer loop.
Sleep(t) ==
    /\ proc = "running"
    /\ sub[t] = "backoff"
    /\ sub' = [sub EXCEPT ![t] = "disconnected"]
    /\ UNCHANGED <<idToMarketItem, ownerOf, chainLog, logs, createdWorker,
                   listings, transactions, schema, processed, reprocessed,
                   earlySales, proc, calls, listenerVars, contractVars>>

\* A listener with a buffered event channel: it queues the event and goes on
\* to the next log whether or not the worker has taken the last one.
LogCaseBuffered(t, log) ==
    /\ proc = "running"
    /\ sub[t] = "streaming"
    /\ Len(received[t]) < MaxReceived
    /\ received' = [received EXCEPT ![t] = Append(@, log)]
    /\ IF ~Unpacks(t, log)
       THEN UNCHANGED <<eventChan, proc, closed>>
       ELSE IF ~HasTopics(t, log)
       THEN /\ proc' = "crashed"
            /\ closed' = [closed EXCEPT ![t] = @ + 1]
            /\ UNCHANGED eventChan
       ELSE /\ eventChan' = [eventChan EXCEPT ![t] = Append(@, log)]
            /\ UNCHANGED <<proc, closed>>
    /\ UNCHANGED <<idToMarketItem, ownerOf, chainLog, sub, logs, createdWorker,
                   listings, transactions, schema, processed, reprocessed,
                   earlySales, calls, applied, handling, retries>>
    /\ UNCHANGED <<ctxDone, subscriptions, rangeEnded>>
    /\ UNCHANGED contractVars

\* A listener that hands every event to a goroutine of its own, which sends
\* it when it can: the newest waits in front.
LogCaseUnordered(t, log) ==
    /\ proc = "running"
    /\ sub[t] = "streaming"
    /\ Len(received[t]) < MaxReceived
    /\ received' = [received EXCEPT ![t] = Append(@, log)]
    /\ IF ~Unpacks(t, log)
       THEN UNCHANGED <<eventChan, proc, closed>>
       ELSE IF ~HasTopics(t, log)
       THEN /\ proc' = "crashed"
            /\ closed' = [closed EXCEPT ![t] = @ + 1]
            /\ UNCHANGED eventChan
       ELSE /\ eventChan' = [eventChan EXCEPT ![t] = <<log>> \o @]
            /\ UNCHANGED <<proc, closed>>
    /\ UNCHANGED <<idToMarketItem, ownerOf, chainLog, sub, logs, createdWorker,
                   listings, transactions, schema, processed, reprocessed,
                   earlySales, calls, applied, handling, retries>>
    /\ UNCHANGED <<ctxDone, subscriptions, rangeEnded>>
    /\ UNCHANGED contractVars

\* case vLog := <-logs.  A payload that does not unpack is logged and
\* skipped.  The topics are then indexed without a look at their number: an
\* index out of range panics: the deferred close(eventChan) runs, and a panic
\* in a goroutine ends the process.
\* Otherwise the event is sent on the unbuffered event channel.
LogCase(t, log) ==
    /\ proc = "running"
    /\ sub[t] = "streaming"
    /\ eventChan[t] = <<>>
    /\ Len(received[t]) < MaxReceived
    /\ received' = [received EXCEPT ![t] = Append(@, log)]
    /\ IF ~Unpacks(t, log)
       THEN UNCHANGED <<eventChan, proc, closed>>
       ELSE IF ~HasTopics(t, log)
       THEN /\ proc' = "crashed"
            /\ closed' = [closed EXCEPT ![t] = @ + 1]
            /\ UNCHANGED eventChan
       ELSE /\ eventChan' = [eventChan EXCEPT ![t] = Append(@, log)]
            /\ UNCHANGED <<proc, closed>>
    /\ UNCHANGED <<idToMarketItem, ownerOf, chainLog, sub, logs, createdWorker,
                   listings, transactions, schema, processed, reprocessed,
                   earlySales, calls, applied, handling, retries>>
    /\ UNCHANGED <<ctxDone, subscriptions, rangeEnded>>
    /\ UNCHANGED contractVars

\* for event := range events: the worker takes the event the listener is
\* sending and calls the service with it.
RangeEvents(t) ==
    /\ proc = "running"
    /\ handling[t] = <<>>
    /\ eventChan[t] # <<>>
    /\ handling' = [handling EXCEPT ![t] = <<Head(eventChan[t])>>]
    /\ eventChan' = [eventChan EXCEPT ![t] = Tail(@)]
    /\ applied' = [applied EXCEPT ![t] = Append(@, Head(eventChan[t]))]
    /\ UNCHANGED <<idToMarketItem, ownerOf, chainLog, sub, logs, createdWorker,
                   listings, transactions, schema, processed, reprocessed,
                   earlySales, proc, calls, received, retries>>
    /\ UNCHANGED <<lifeVars, contractVars>>

\* The service call returns; its error, if any, is logged and the worker
\* goes on to the next event.
Handled(t, ok) ==
    /\ proc = "running"
    /\ handling[t] # <<>>
    /\ handling' = [handling EXCEPT ![t] = <<>>]
    /\ UNCHANGED <<idToMarketItem, ownerOf, chainLog, sub, logs, createdWorker,
                   listings, transactions, schema, processed, reprocessed,
                   earlySales, proc, calls, received, applied, eventChan,
                   retries>>
    /\ UNCHANGED <<lifeVars, contractVars>>

\* The caller of the listeners cancels the context it gave them.  It is no
\* step of the program: main holds no context to cancel for the listeners.
Cancel ==
    /\ proc = "running"
    /\ ~ctxDone
    /\ ctxDone' = TRUE
    /\ UNCHANGED <<idToMarketItem, ownerOf, chainLog, sub, logs, createdWorker,
                   listings, transactions, schema, processed, reprocessed,
                   earlySales, proc, calls, received, applied, eventChan,
                   handling, retries, subscriptions, closed, rangeEnded,
                   contractVars>>

\* Top of the outer loop, case <-ctx.Done(): return; the deferred
\* close(eventChan) runs.
OuterCtxDone(t) ==
    /\ proc = "running"
    /\ sub[t] = "disconnected"
    /\ ctxDone
    /\ sub' = [sub EXCEPT ![t] = "stopped"]
    /\ closed' = [closed EXCEPT ![t] = @ + 1]
    /\ UNCHANGED <<idToMarketItem, ownerOf, chainLog, logs, createdWorker,
                   listings, transactions, schema, processed, reprocessed,
                   earlySales, proc, calls, received, applied, eventChan,
                   handling, retries, ctxDone, subscriptions, rangeEnded,
                   contractVars>>

\* A listener that closes its channel itself before it returns, on top of
\* the deferred close.
CtxDoneClosesTwice(t) ==
    /\ proc = "running"
    /\ sub[t] = "streaming"
    /\ eventChan[t] = <<>>
    /\ ctxDone
    /\ sub' = [sub EXCEPT ![t] = "stopped"]
    /\ subscriptions' = [subscriptions EXCEPT ![t] = @ - 1]
    /\ closed' = [closed EXCEPT ![t] = @ + 2]
    /\ UNCHANGED <<idToMarketItem, ownerOf, chainLog, logs, createdWorker,
                   listings, transactions, schema, processed, reprocessed,
                   earlySales, proc, calls, received, applied, eventChan,
                   handling, retries, ctxDone, rangeEnded, contractVars>>

\* In the select, case <-ctx.Done(): Unsubscribe and return; the deferred
\* close(eventChan) runs.  The listener is in its select only while it is
\* not blocked sending an event.
CtxDone(t) ==
    /\ proc = "running"
    /\ sub[t] = "streaming"
    /\ eventChan[t] = <<>>
    /\ ctxDone
    /\ sub' = [sub EXCEPT ![t] = "stopped"]
    /\ subscriptions' = [subscriptions EXCEPT ![t] = @ - 1]
    /\ closed' = [closed EXCEPT ![t] = @ + 1]
    /\ UNCHANGED <<idToMarketItem, ownerOf, chainLog, logs, createdWorker,
                   listings, transactions, schema, processed, reprocessed,
                   earlySales, proc, calls, received, applied, eventChan,
                   handling, retries, ctxDone, rangeEnded, contractVars>>

\* for event := range events on a closed channel with nothing left to
\* receive: the loop ends and the worker goroutine returns.
RangeEnds(t) ==
    /\ proc = "running"
    /\ closed[t] > 0
    /\ eventChan[t] = <<>>
    /\ handling[t] = <<>>
    /\ ~rangeEnded[t]
    /\ rangeEnded' = [rangeEnded EXCEPT ![t] = TRUE]
    /\ UNCHANGED <<idToMarketItem, ownerOf, chainLog, sub, logs, createdWorker,
                   listings, transactions, schema, processed, reprocessed,
                   earlySales, proc, calls, received, applied, eventChan,
                   handling, retries, ctxDone, subscriptions, closed,
                   contractVars>>

\* main after SIGINT/SIGTERM: srv.Shutdown, sqlDB.Close, blockchainClient.Close,
\* return.  The listeners and their workers are goroutines that main neither
\* signals nor waits for: they end with the process, wherever they are.
Shutdown ==
    /\ proc = "running"
    /\ proc' = "exited"
    /\ UNCHANGED <<idToMarketItem, ownerOf, chainLog, sub, logs, createdWorker,
                   listings, transactions, schema, processed, reprocessed,
                   earlySales, calls, listenerVars, contractVars>>

\* ------------------------------------------------- transaction repository
\* The write methods of TransactionRepository, called with any argument.
TxStatuses == {"pending", "confirmed", "failed"}

TxInputs ==
    {[SaleTransaction([buyer |-> UserA, price |-> v]) EXCEPT
         !.id = i, !.txHash = h, !.txType = ty, !.status = st] :
        i \in 0..MaxTx, v \in SaleValues, h \in {"0xt1", "0xt2"},
        ty \in {"sale", "list"}, st \in TxStatuses}

TransactionCreate(tx) ==
    /\ proc = "running"
    /\ tx.id = 0
    /\ Len(transactions) < MaxTx
    /\ transactions' = TransactionRepositoryCreate(transactions, tx).rows
    /\ UNCHANGED <<idToMarketItem, ownerOf, chainLog, sub, logs, createdWorker,
                   listings, schema, processed, reprocessed, earlySales, proc,
                   calls, listenerVars, contractVars>>

TransactionUpdate(tx) ==
    /\ proc = "running"
    /\ tx.id \in DOMAIN transactions \/ (tx.id = 0 /\ Len(transactions) < MaxTx)
    /\ transactions' = TransactionRepositoryUpdate(transactions, tx).rows
    /\ UNCHANGED <<idToMarketItem, ownerOf, chainLog, sub, logs, createdWorker,
                   listings, schema, processed, reprocessed, earlySales, proc,
                   calls, listenerVars, contractVars>>

TransactionUpdateStatus(id, status) ==
    /\ proc = "running"
    /\ transactions' =
          TransactionRepositoryUpdateStatus(transactions, id, status).rows
    /\ UNCHANGED <<idToMarketItem, ownerOf, chainLog, sub, logs, createdWorker,
                   listings, schema, processed, reprocessed, earlySales, proc,
                   calls, listenerVars, contractVars>>

\* ----------------------------------------------------- listing repository
\* The write methods of ListingRepository that the services call, with any
\* argument.
StatPrices == {"100", "20", "3", "abc"}

ListingInputs ==
    {RequestListing([itemId |-> i, nftContract |-> "0xC1", tokenId |-> "1",
                     seller |-> "0xAa", price |-> p, txHash |-> ReqTxHash]) :
        i \in 1..MaxListings, p \in StatPrices}

ListingCreate(listing) ==
    /\ proc = "running"
    /\ Len(listings) < MaxListings
    /\ listings' = ListingRepositoryCreate(listings, listing).rows
    /\ UNCHANGED <<idToMarketItem, ownerOf, chainLog, sub, logs, createdWorker,
                   transactions, schema, processed, reprocessed, earlySales,
                   proc, calls, listenerVars, contractVars>>

ListingUpdateStatus(id, status) ==
    /\ proc = "running"
    /\ listings' = UpdateStatus(listings, id, status)
    /\ UNCHANGED <<idToMarketItem, ownerOf, chainLog, sub, logs, createdWorker,
                   transactions, schema, processed, reprocessed, earlySales,
                   proc, calls, listenerVars, contractVars>>

\* ------------------------------------------------------------ specification
Init ==
    /\ idToMarketItem = <<>>
    /\ ownerOf = [t \in Tokens |-> IF t = 1 THEN UserA ELSE UserB]
    /\ chainLog = {}
    /\ sub = [t \in Topics |-> "disconnected"]
    /\ logs = [t \in Topics |-> <<>>]
    /\ createdWorker = Idle
    /\ listings = <<>>
    /\ transactions = <<>>
    /\ schema \in {"sql", "automigrate"}
    /\ processed = {}
    /\ reprocessed = {}
    /\ earlySales = {}
    /\ proc = "running"
    /\ calls = [c \in Clients |-> NoCall]
    /\ received = [t \in Topics |-> <<>>]
    /\ applied = [t \in Topics |-> <<>>]
    /\ eventChan = [t \in Topics |-> <<>>]
    /\ handling = [t \in Topics |-> <<>>]
    /\ retries = [t \in Topics |-> 0]
    /\ platformFee = 250
    /\ itemsSold = 0
    /\ balance = [a \in Accounts |-> IF a \in Users THEN InitialWei ELSE 0]
    /\ getApproved = [t \in Tokens |-> ZeroAddress]
    /\ isApprovedForAll = [u \in Users |-> TRUE]
    /\ receipt = NoReceipt
    /\ userActiveListings = [u \in Users |-> <<>>]
    /\ salesSinceWithdraw = <<>>
    /\ guardStatus = "NOT_ENTERED"
    /\ frame = NoFrame
    /\ ctxDone = FALSE
    /\ subscriptions = [t \in Topics |-> 0]
    /\ closed = [t \in Topics |-> 0]
    /\ rangeEnded = [t \in Topics |-> FALSE]

Next ==
    \/ \E c \in Users, t \in Tokens, p \in ListPrices :
          ItemIds < MaxItems /\ createMarketItem(c, t, p) /\ UNCHANGED receipt
    \/ \E i \in 1..MaxItems, b \in Users, v \in SaleValues :
          createMarketSale(i, b, v) /\ UNCHANGED receipt
    \/ \E i \in 1..MaxItems, c \in Users :
          cancelMarketItem(i, c) /\ UNCHANGED receipt
    \/ \E t \in Topics : Subscribe(t)
    \/ \E t \in Topics : SubscriptionError(t)
    \/ \E t \in Topics, log \in chainLog : Redeliver(t, log)
    \/ \E req \in Requests, rpcOk \in BOOLEAN :
          CreateListing(req, rpcOk) /\ UNCHANGED calls
    \/ \E id \in 1..MaxItems, s \in CancelSellers : CancelListing(id, s)
    \/ UpdateFromEvent
    \/ FirstOrCreateInsert
    \/ RecordSale

Spec == Init /\ [][Next]_vars

\* The listeners and workers are goroutines that keep running: a subscription
\* that can be made is made, an event that waits in a channel is taken.
FairSpec ==
    /\ Spec
    /\ \A t \in Topics : WF_vars(Subscribe(t))
    /\ WF_vars(UpdateFromEvent)
    /\ WF_vars(FirstOrCreateInsert)
    /\ WF_vars(RecordSale)

\* The HTTP API seen by its clients: every request is answered, and a
\* cancellation runs as the two statements it is made of, so that requests
\* of different clients interleave.
ApiNext ==
    \/ \E c \in Users, t \in Tokens, p \in ListPrices :
          ItemIds < MaxItems /\ createMarketItem(c, t, p) /\ UNCHANGED receipt
    \/ \E c \in Clients, req \in Requests, rpcOk \in BOOLEAN :
          PostListing(c, req, rpcOk)
    \/ \E c \in Clients, id \in 1..MaxItems, s \in CancelSellers :
          CancelListingGetByID(c, id, s)
    \/ \E c \in Clients : CancelListingUpdateStatus(c)

ApiSpec == Init /\ [][ApiNext]_vars

\* The listeners and their workers alone, fed by the node.
ListenerNext ==
    \/ \E t \in Topics, ok \in BOOLEAN : SubscribeFilterLogs(t, ok)
    \/ \E t \in Topics : SubErr(t)
    \/ \E t \in Topics : Sleep(t)
    \/ \E t \in Topics : \E log \in FeedLogs(t) : LogCase(t, log)
    \/ \E t \in Topics : RangeEvents(t)
    \/ \E t \in Topics, ok \in BOOLEAN : Handled(t, ok)
    \/ Shutdown

ListenerSpec == Init /\ [][ListenerNext]_vars

\* A sleep ends, a worker takes the event that waits for it, and the
\* transport ends up accepting one of the subscriptions it is asked for again
\* and again.
ListenerFairSpec ==
    /\ ListenerSpec
    /\ \A t \in Topics :
          /\ WF_vars(Sleep(t))
          /\ WF_vars(RangeEvents(t))
          /\ SF_vars(SubscribeFilterLogs(t, TRUE))

\* The listeners as functions of a context: their caller may cancel it at any
\* time.  The node pushes a well-formed log or one without its topics.
CancelFeed(t) ==
    {MissingTopics(t),
     IF t = "MarketItemCreated"
     THEN [topics |-> <<t, 1, NftC1, 1>>, data |-> <<UserA, 100>>]
     ELSE [topics |-> <<t, 1, UserB>>, data |-> <<100>>]}

CancelNext ==
    \/ \E t \in Topics, ok \in BOOLEAN : SubscribeFilterLogs(t, ok)
    \/ \E t \in Topics : SubErr(t)
    \/ \E t \in Topics : Sleep(t)
    \/ \E t \in Topics : \E log \in CancelFeed(t) : LogCase(t, log)
    \/ \E t \in Topics : RangeEvents(t)
    \/ \E t \in Topics : Handled(t, TRUE)
    \/ Cancel
    \/ \E t \in Topics : OuterCtxDone(t)
    \/ \E t \in Topics : CtxDone(t)
    \/ \E t \in Topics : RangeEnds(t)

CancelSpec == Init /\ [][CancelNext]_vars

\* The sleep ends, the select takes the cancellation although logs keep
\* coming, the deferred close runs, and the worker keeps receiving: it takes
\* the event offered, its service call returns, and it notices the close.
CancelFairSpec ==
    /\ CancelSpec
    /\ \A t \in Topics :
          /\ WF_vars(Sleep(t))
          /\ WF_vars(OuterCtxDone(t))
          /\ SF_vars(CtxDone(t))
          /\ WF_vars(RangeEvents(t))
          /\ WF_vars(Handled(t, TRUE))
          /\ WF_vars(RangeEnds(t))

\* The transactions table under the three write methods of its repository.
RepositoryNext ==
    \/ \E tx \in TxInputs : TransactionCreate(tx)
    \/ \E tx \in TxInputs : TransactionUpdate(tx)
    \/ \E id \in 1..MaxTx, st \in TxStatuses : TransactionUpdateStatus(id, st)

RepositorySpec == Init /\ [][RepositoryNext]_vars

\* The listings table under the write methods of its repository.
ListingRepositoryNext ==
    \/ \E listing \in ListingInputs : ListingCreate(listing)
    \/ \E id \in 1..MaxListings, st \in {"cancelled", "sold"} :
          ListingUpdateStatus(id, st)

ListingRepositorySpec == Init /\ [][ListingRepositoryNext]_vars

\* The two contracts alone, called by the users and by the deployer.  The
\* owners have approved nothing yet.
ContractPrices == {0, 100}
Fees == {500, 1000, 1001}

ContractInit ==
    /\ idToMarketItem = <<>>
    /\ ownerOf = [t \in Tokens |-> IF t = 1 THEN UserA ELSE UserB]
    /\ chainLog = {}
    /\ sub = [t \in Topics |-> "disconnected"]
    /\ logs = [t \in Topics |-> <<>>]
    /\ createdWorker = Idle
    /\ listings = <<>>
    /\ transactions = <<>>
    /\ schema = "sql"
    /\ processed = {}
    /\ reprocessed = {}
    /\ earlySales = {}
    /\ proc = "running"
    /\ calls = [c \in Clients |-> NoCall]
    /\ received = [t \in Topics |-> <<>>]
    /\ applied = [t \in Topics |-> <<>>]
    /\ eventChan = [t \in Topics |-> <<>>]
    /\ handling = [t \in Topics |-> <<>>]
    /\ retries = [t \in Topics |-> 0]
    /\ platformFee = 250
    /\ itemsSold = 0
    /\ balance = [a \in Accounts |-> IF a \in Users THEN InitialWei ELSE 0]
    /\ getApproved = [t \in Tokens |-> ZeroAddress]
    /\ isApprovedForAll = [u \in Users |-> FALSE]
    /\ receipt = NoReceipt
    /\ userActiveListings = [u \in Users |-> <<>>]
    /\ salesSinceWithdraw = <<>>
    /\ guardStatus = "NOT_ENTERED"
    /\ frame = NoFrame
    /\ ctxDone = FALSE
    /\ subscriptions = [t \in Topics |-> 0]
    /\ closed = [t \in Topics |-> 0]
    /\ rangeEnded = [t \in Topics |-> FALSE]

ContractNext ==
    \/ \E c \in Users, t \in Tokens, p \in ContractPrices :
          TxCreateMarketItem(c, t, p)
    \/ \E i \in 1..MaxListed, b \in Users, v \in SaleValues :
          TxCreateMarketSale(i, b, v)
    \/ \E i \in 1..MaxListed, c \in Users : TxCancelMarketItem(i, c)
    \/ \E c \in {UserA, Deployer}, f \in Fees : TxUpdatePlatformFee(c, f)
    \/ \E c \in {UserA, Deployer} : TxWithdrawFees(c)
    \/ \E c \in Users, t \in Tokens, to \in {Market, ZeroAddress} :
          approve(c, to, t)
    \/ \E c \in Users, a \in BOOLEAN : setApprovalForAll(c, a)

ContractSpec == ContractInit /\ [][ContractNext]_vars

\* The marketplace with sellers and buyers that may be contracts: a sale
\* proceeds call by call, and no other transaction runs until it has ended.
ReentrantNext ==
    \/ \E c \in Users, t \in Tokens, p \in ListPrices :
          frame = NoFrame /\ TxCreateMarketItem(c, t, p)
    \/ \E i \in 1..MaxListed, c \in Users :
          frame = NoFrame /\ TxCancelMarketItem(i, c)
    \/ \E c \in Users, t \in Tokens, to \in {Market, ZeroAddress} :
          frame = NoFrame /\ approve(c, to, t)
    \/ \E i \in 1..MaxListed, b \in Users, v \in SaleValues : SaleEnter(i, b, v)
    \/ \E ok \in BOOLEAN : SellerReturns(ok)
    \/ \E ok \in BOOLEAN : BuyerReturns(ok)
    \/ \E t \in Tokens, p \in ListPrices : ReenterCreateMarketItem(t, p)
    \/ \E i \in 1..MaxListed, v \in SaleValues : ReenterCreateMarketSale(i, v)
    \/ \E i \in 1..MaxListed : ReenterCancelMarketItem(i)
    \/ \E t \in Tokens, to \in {Market, ZeroAddress} : ReenterApprove(to, t)

ReentrantSpec == ContractInit /\ [][ReentrantNext]_vars

\* ------------------------------------------------------------------ helpers
\* The ids of the listing rows of one market item.
ListingsOf(itemId) == {i \in DOMAIN listings : listings[i].itemId = itemId}

IsCreatedLog(log) == log.topics[1] = "MarketItemCreated"
IsSoldLog(log) == log.topics[1] = "MarketItemSold"

\* ------------------------------------------------------------------- claims
\* Every MarketItemCreated log that has been applied has exactly one row.
C1_CreatedAppliedOnce ==
    \A log \in processed :
        IsCreatedLog(log) => Cardinality(ListingsOf(log.topics[2])) = 1

\* C1: applying a MarketItemCreated event leaves exactly one listing row for
\* its itemId, and applying the same event again, whatever happened in
\* between, writes nothing: the listings table is the same before and after
\* the second application.
C1_ListingCreatedIdempotent ==
    [][/\ C1_CreatedAppliedOnce'
       /\ (\E log \in reprocessed' \ reprocessed : IsCreatedLog(log))
             => UNCHANGED listings]_vars

\* A MarketItemCreated event has been applied a second time to a table that
\* holds the one row of its item.
C1_Witness ==
    \E log \in reprocessed :
        /\ IsCreatedLog(log)
        /\ Cardinality(ListingsOf(log.topics[2])) = 1

\* C2: a listing row whose status is sold or cancelled keeps that status in
\* every later step: no operation takes it back to active (or anywhere else),
\* and the row is never removed.
C2_TerminalStatusIsFinal ==
    [][\A i \in DOMAIN listings :
          listings[i].status \in {"sold", "cancelled"}
              => /\ i \in DOMAIN listings'
                 /\ listings'[i].status = listings[i].status]_vars

\* A cancelled row whose MarketItemCreated event has come in again.
C2_Witness ==
    \E i \in DOMAIN listings :
        /\ listings[i].status = "cancelled"
        /\ \E log \in reprocessed :
              IsCreatedLog(log) /\ log.topics[2] = listings[i].itemId

\* C3: when a MarketItemSold event is applied and the item's listing row is
\* active, the row becomes sold with the event's buyer and a sold_at time,
\* and one sale transaction with the event's price is appended.
C3_SoldEventMarksListingSold ==
    [][RecordSale =>
         LET event == DecodeSold(Head(logs["MarketItemSold"])) IN
         \A i \in ListingsOf(event.itemId) :
             listings[i].status = "active"
                 => /\ listings'[i].status = "sold"
                    /\ listings'[i].buyer = Hex(event.buyer)
                    /\ listings'[i].soldAt = "set"
                    /\ Len(transactions') = Len(transactions) + 1
                    /\ transactions'[Len(transactions')].txType = "sale"
                    /\ transactions'[Len(transactions')].value
                           = String(event.price)]_vars

\* No event waits in a channel and no worker is in the middle of a call.
Quiescent ==
    /\ ~createdWorker.busy
    /\ \A t \in Topics : logs[t] = <<>>

\* The sale transactions that carry the buyer of a MarketItemSold log.
SaleRecordsOf(log) ==
    {j \in DOMAIN transactions :
        /\ transactions[j].txType = "sale"
        /\ transactions[j].fromAddress = Hex(log.topics[3])}

\* C4: a MarketItemSold event that arrives before the MarketItemCreated event
\* of its item ends, once both have been applied and nothing is pending, in
\* the state the in-order delivery gives: the listing is sold and there is
\* exactly one sale transaction.
C4_SaleBeforeCreatedConverges ==
    \A sale \in earlySales :
        (/\ Quiescent
         /\ \E log \in processed :
               IsCreatedLog(log) /\ log.topics[2] = sale.topics[2])
            => /\ ListingsOf(sale.topics[2]) # {}
               /\ \A i \in ListingsOf(sale.topics[2]) :
                     listings[i].status = "sold"
               /\ Cardinality(SaleRecordsOf(sale)) = 1

\* C5: a submission whose seller is not the seller of the on-chain item it
\* names persists no listing row.
C5_SellerMismatchRejected ==
    [][\A req \in Requests :
          (/\ req.itemId \in 1..ItemIds
           /\ HexToAddress(req.seller) # idToMarketItem[req.itemId].seller
           /\ CreateListing(req, TRUE))
              => UNCHANGED listings]_vars

\* C6: every listing row names a market item that was created on chain: a
\* submission for an itemId the contract never handed out persists nothing.
C6_UnknownItemRejected ==
    \A i \in DOMAIN listings : listings[i].itemId \in 1..ItemIds

\* C7: however the submissions and the MarketItemCreated events for one
\* itemId interleave, the listings table never holds two rows of that itemId.
C7_AtMostOneListingPerItem ==
    \A i, j \in DOMAIN listings :
        listings[i].itemId = listings[j].itemId => i = j

\* The event worker has found no row of its item and is about to insert,
\* and a submission has meanwhile inserted the row of the same item.
C7_Witness ==
    /\ createdWorker.busy
    /\ \E i \in ListingsOf(createdWorker.listing.itemId) :
          listings[i].txHash = ReqTxHash

\* The submission carries what the chain holds for its item.
AgreesWithChain(req) ==
    /\ req.itemId \in 1..ItemIds
    /\ HexToAddress(req.nftContract) = idToMarketItem[req.itemId].nftContract
    /\ HexToAddress(req.seller) = idToMarketItem[req.itemId].seller
    /\ req.tokenId = String(idToMarketItem[req.itemId].tokenId)
    /\ req.price = String(idToMarketItem[req.itemId].price)

\* C8: a verified submission and the MarketItemCreated event of the same
\* listing commute: whether or not the event has already written the row of
\* the item, the submission completes without error.
C8_SubmissionAndEventCommute ==
    \A req \in Requests :
        (/\ AgreesWithChain(req)
         /\ \A i \in ListingsOf(req.itemId) : listings[i].txHash = "")
            => CreateListingErr(req, TRUE) = NoError

\* C9: the sale transactions are keyed by the event they come from: there is
\* one sale transaction for each distinct MarketItemSold log applied.
C9_OneSaleRecordPerSoldLog ==
    Cardinality({j \in DOMAIN transactions : transactions[j].txType = "sale"})
        = Cardinality({log \in processed : IsSoldLog(log)})

\* Every MarketItemSold log the contract can emit.
PossibleSoldLogs ==
    {[topics |-> <<"MarketItemSold", i, b>>, data |-> <<p>>] :
        i \in 1..MaxItems, b \in Users, p \in ListPrices}

\* C10: a MarketItemSold log never has more than one sale transaction, and a
\* log the live subscription missed is still applied: every log emitted is
\* eventually applied.
C10_SoldLogsAppliedExactlyOnce ==
    \A log \in PossibleSoldLogs :
        /\ [](Cardinality(SaleRecordsOf(log)) <= 1)
        /\ (log \in chainLog) ~> (log \in processed)

\* Every MarketItemCreated log the contract can emit.
PossibleCreatedLogs ==
    {[topics |-> <<"MarketItemCreated", i, NftC1, t>>, data |-> <<c, p>>] :
        i \in 1..MaxItems, t \in Tokens, c \in Users, p \in ListPrices}

\* The log has been handed to its worker: applied, or being applied.
Delivered(log) ==
    \/ log \in processed
    \/ createdWorker.busy /\ createdWorker.log = log

\* C11: every log the contract emits for a watched topic is eventually
\* handed to the worker of that topic, also when it was emitted while the
\* subscription of the topic was down.
C11_EveryWatchedLogDelivered ==
    \A log \in PossibleCreatedLogs \cup PossibleSoldLogs :
        (log \in chainLog) ~> Delivered(log)

\* The MarketItemCanceled log of an item.
CanceledLog(itemId) == [topics |-> <<"MarketItemCanceled", itemId>>, data |-> <<>>]

\* C12: once the contract has emitted MarketItemCanceled for an item whose
\* listing row is active, the row eventually leaves the active status.
C12_CanceledEventCancelsListing ==
    \A itemId \in 1..MaxItems :
        (/\ CanceledLog(itemId) \in chainLog
         /\ \E i \in ListingsOf(itemId) : listings[i].status = "active")
            ~> (\A i \in ListingsOf(itemId) : listings[i].status = "cancelled")

\* C13: a POST /listings whose verification is not positive (the eth_call
\* failed, or the item's nftContract on chain is not the submitted one) is
\* answered with an error and leaves the listings table as it was.
C13_UnverifiedSubmissionRejected ==
    [][\A c \in Clients :
          (/\ calls'[c] # calls[c]
           /\ calls'[c].op = "create"
           /\ \/ ~calls'[c].rpcOk
              \/ getMarketItem(calls'[c].req.itemId).nftContract
                    # HexToAddress(calls'[c].req.nftContract))
              => /\ calls'[c].err # NoError
                 /\ UNCHANGED listings]_vars

\* One client was refused because the eth_call failed, another because the
\* nftContract of an item that exists on chain is not the one it submitted.
C13_Witness ==
    \E c, d \in Clients :
        /\ calls[c].pc = "done" /\ calls[c].op = "create"
        /\ calls[c].err = "failed to verify on-chain data"
        /\ calls[d].pc = "done" /\ calls[d].op = "create"
        /\ calls[d].err = "nft contract mismatch"
        /\ calls[d].req.itemId \in 1..ItemIds

\* C14: a listener that is not streaming (never subscribed, its attempt
\* failed, or its subscription broke) subscribes again after its sleep, as
\* often as it takes, and is streaming again unless the process has ended.
C14_ListenerReachesStreaming ==
    \A t \in Topics :
        (sub[t] # "streaming") ~> (sub[t] = "streaming" \/ proc # "running")

\* A listener is streaming after MaxRetries failed subscriptions.
C14_Witness ==
    \E t \in Topics : sub[t] = "streaming" /\ retries[t] = MaxRetries

IsPrefix(p, q) ==
    /\ Len(p) <= Len(q)
    /\ \A i \in 1..Len(p) : p[i] = q[i]

WellFormed(t, log) == Unpacks(t, log) /\ HasTopics(t, log)

\* The logs of a sequence that decode, in their order.
Decoded(t, seq) == SelectSeq(seq, LAMBDA log : WellFormed(t, log))

\* C15: within one subscription the events a worker has taken are, in that
\* order, the first of the received logs that decode: a log received before
\* another is applied before it.
C15_AppliedInReceiptOrder ==
    \A t \in Topics : IsPrefix(applied[t], Decoded(t, received[t]))

\* Two different events of one subscription have both been applied.
C15_Witness ==
    \E t \in Topics :
        /\ Len(applied[t]) = 2
        /\ applied[t][1] # applied[t][2]

\* C16: a log that does not decode (wrong payload, or indexed topics
\* missing) is skipped: the process has not crashed while such a log is
\* among those its listeners have received.
C16_MalformedLogSkipped ==
    \A t \in Topics : \A i \in DOMAIN received[t] :
        ~WellFormed(t, received[t][i]) => proc # "crashed"

\* C17: when the process has returned after a shutdown signal, every
\* listener has unsubscribed and returned, and no worker was left in the
\* middle of an event.
C17_ShutdownIsCooperative ==
    proc = "exited" =>
        \A t \in Topics :
            /\ sub[t] = "stopped"
            /\ eventChan[t] = <<>>
            /\ handling[t] = <<>>

\* The client's DELETE /listings/id was answered 200.
Cancelled(c, id) ==
    /\ calls[c].pc = "done"
    /\ calls[c].op = "cancel"
    /\ calls[c].id = id
    /\ calls[c].err = NoError

\* C18: the status check and the status write of a cancellation are one
\* atomic step per listing, so no two clients are both told that they
\* cancelled the same listing (a listing is active only once).
C18_CheckAndWriteAtomic ==
    \A id \in 1..MaxItems : \A c, d \in Clients :
        Cancelled(c, id) /\ Cancelled(d, id) => c = d

\* C19: a stored transaction is never deleted, a confirmed one is never
\* changed, and the only change ever made to a stored one is its status
\* going from pending to confirmed or to failed.
C19_ConfirmedTransactionImmutable ==
    [][\A i \in DOMAIN transactions :
          /\ i \in DOMAIN transactions'
          /\ transactions[i].status = "confirmed"
                => transactions'[i] = transactions[i]
          /\ transactions'[i] # transactions[i]
                => /\ transactions'[i]
                        = [transactions[i] EXCEPT
                              !.status = transactions'[i].status]
                   /\ transactions[i].status = "pending"
                   /\ transactions'[i].status \in {"confirmed", "failed"}]_vars

\* C20: the total volume of the market statistics is the sum of the values
\* of the confirmed sale transactions, the figure
\* TransactionService.GetTotalVolume returns.
C20_TotalVolumeIsConfirmedSales ==
    GetMarketStats.total_volume = TransactionRepositoryGetTotalVolume

C22_AtMostOneEventPending ==
    \A t \in Topics :
        /\ Len(eventChan[t]) <= 1
        /\ Len(Decoded(t, received[t])) - Len(applied[t]) = Len(eventChan[t])

\* A worker is still applying one event while its listener is blocked
\* sending the next.
C22_Witness ==
    \E t \in Topics :
        /\ handling[t] # <<>>
        /\ eventChan[t] # <<>>
        /\ handling[t][1] # eventChan[t][1]

\* What a reverted call leaves as it was: the items, the funds, the tokens
\* and the logs.
ContractUnchanged ==
    UNCHANGED <<idToMarketItem, itemsSold, platformFee, balance, ownerOf,
                getApproved, isApprovedForAll, chainLog, userActiveListings>>

\* C23: createMarketSale reverts and changes nothing when the item is sold
\* or cancelled ("Item already sold"), else when msg.value is not the price
\* ("Incorrect price"), else when the caller is the seller ("Cannot buy own
\* item").
C23_SaleRevertsLeaveNoTrace ==
    [][\A i \in 1..MaxListed, b \in Users, v \in SaleValues :
          receipt'.fn = "createMarketSale" /\ TxCreateMarketSale(i, b, v) =>
            LET item == getMarketItem(i) IN
            /\ item.sold => receipt'.revert = "Item already sold"
            /\ ~item.sold /\ v # item.price
                  => receipt'.revert = "Incorrect price"
            /\ ~item.sold /\ v = item.price /\ item.seller = b
                  => receipt'.revert = "Cannot buy own item"
            /\ item.sold \/ v # item.price \/ item.seller = b
                  => ContractUnchanged]_vars

\* A purchase of a cancelled item was refused, and so was a seller's
\* purchase of their own item.
C23_Witness ==
    /\ receipt = [fn |-> "createMarketSale", revert |-> "Cannot buy own item"]
    /\ \E i \in 1..ItemIds :
          idToMarketItem[i].sold
              /\ idToMarketItem[i].owner = idToMarketItem[i].seller

C25_FetchActiveItemsIsAvailable ==
    /\ Len(fetchActiveItems) = Cardinality(Available)
    /\ \A i \in Available :
          \E k \in DOMAIN fetchActiveItems :
              fetchActiveItems[k] = idToMarketItem[i]

\* C26: getMarketStats counts the items created, the sales completed and
\* the items still available.
C26_MarketStatsCount ==
    /\ getMarketStats.totalItems = ItemIds
    /\ getMarketStats.soldItems
          = Cardinality({log \in chainLog : log.topics[1] = "MarketItemSold"})
    /\ getMarketStats.activeItems = Cardinality(Available)

\* C27: cancelMarketItem goes through exactly for the seller of an unsold
\* item, marks it sold with the seller as owner and emits
\* MarketItemCanceled; for another caller it reverts with "Not the seller",
\* for a sold or cancelled item with "Item already sold", changing nothing.
C27_CancelOnlyBySellerOfUnsold ==
    [][\A i \in 1..MaxListed, c \in Users :
          receipt'.fn = "cancelMarketItem" /\ TxCancelMarketItem(i, c) =>
            LET item == getMarketItem(i) IN
            IF item.seller = c /\ ~item.sold
            THEN /\ receipt'.revert = NoRevert
                 /\ idToMarketItem'
                      = [idToMarketItem EXCEPT
                            ![i] = [item EXCEPT !.sold = TRUE, !.owner = c]]
                 /\ chainLog' = chainLog \cup {CanceledLog(i)}
            ELSE /\ receipt'.revert
                      = IF item.seller # c THEN "Not the seller"
                        ELSE "Item already sold"
                 /\ ContractUnchanged]_vars

\* The seller has cancelled an item and a second cancellation was refused.
C27_Witness ==
    /\ receipt = [fn |-> "cancelMarketItem", revert |-> "Item already sold"]
    /\ \E i \in 1..ItemIds : CanceledLog(i) \in chainLog

\* C28: createMarketItem reverts and creates nothing when the price is 0,
\* when the caller does not own the token, or when the marketplace is
\* approved neither for the token nor as the caller's operator.
C28_ListingRevertsLeaveNoTrace ==
    [][\A c \in Users, t \in Tokens, p \in ContractPrices :
          receipt'.fn = "createMarketItem" /\ TxCreateMarketItem(c, t, p) =>
            LET unapproved == ~isApprovedForAll[c] /\ getApproved[t] # Market IN
            /\ p = 0 => receipt'.revert = "Price must be greater than 0"
            /\ p > 0 /\ ownerOf[t] # c => receipt'.revert = "Not the owner"
            /\ p > 0 /\ ownerOf[t] = c /\ unapproved
                  => receipt'.revert = "Market not approved"
            /\ p = 0 \/ ownerOf[t] # c \/ unapproved
                  => ContractUnchanged]_vars

\* A listing by the token's owner was refused for want of an approval, after
\* an item had been created.
C28_Witness ==
    /\ receipt = [fn |-> "createMarketItem", revert |-> "Market not approved"]
    /\ ItemIds > 0

\* C29: a createMarketItem that goes through stores, under the next id of
\* 1, 2, 3, ..., an unsold item without owner that has the caller as seller
\* and the arguments as token and price, leaves the older items alone and
\* emits MarketItemCreated with the same values.
C29_ItemIdsAreSequential ==
    [][\A c \in Users, t \in Tokens, p \in ContractPrices :
          /\ receipt' = [fn |-> "createMarketItem", revert |-> NoRevert]
          /\ TxCreateMarketItem(c, t, p)
          =>
            LET id == Len(idToMarketItem) + 1 IN
            /\ idToMarketItem'
                  = Append(idToMarketItem,
                           [itemId |-> id, nftContract |-> NftC1,
                            tokenId |-> t, seller |-> c, owner |-> ZeroAddress,
                            price |-> p, sold |-> FALSE])
            /\ chainLog'
                  = chainLog
                      \cup {[topics |-> <<"MarketItemCreated", id, NftC1, t>>,
                             data |-> <<c, p>>]}]_vars

\* Two items have been created, with ids 1 and 2.
C29_Witness ==
    /\ receipt = [fn |-> "createMarketItem", revert |-> NoRevert]
    /\ ItemIds = 2
    /\ idToMarketItem[1].itemId = 1 /\ idToMarketItem[2].itemId = 2

\* C30: platformFee is 250 at deployment and never above 1000;
\* updatePlatformFee goes through only for the owner with a fee of at most
\* 1000, sets the fee and emits PlatformFeeUpdated; otherwise it reverts and
\* changes nothing.
C30_PlatformFeeCapped ==
    /\ platformFee = 250
    /\ [](platformFee <= 1000)
    /\ [][\A c \in {UserA, Deployer}, f \in Fees :
             receipt'.fn = "updatePlatformFee" /\ TxUpdatePlatformFee(c, f) =>
               IF c = Deployer /\ f <= 1000
               THEN /\ receipt'.revert = NoRevert
                    /\ platformFee' = f
                    /\ chainLog'
                          = chainLog \cup {[topics |-> <<"PlatformFeeUpdated">>,
                                            data |-> <<f>>]}
               ELSE /\ receipt'.revert # NoRevert
                    /\ ContractUnchanged]_vars

\* The owner has raised the fee to the cap and a higher fee was refused.
C30_Witness ==
    /\ platformFee = 1000
    /\ receipt = [fn |-> "updatePlatformFee", revert |-> "Fee too high"]

\* C31: withdrawFees goes through only for the owner and only when the
\* contract holds ether; it then moves the whole balance of the contract to
\* the owner. For any other caller, or with nothing to withdraw, it reverts
\* and no funds move.
C31_WithdrawOnlyByOwner ==
    [][\A c \in {UserA, Deployer} :
          receipt'.fn = "withdrawFees" /\ TxWithdrawFees(c) =>
            IF c = Deployer /\ balance[Market] > 0
            THEN /\ receipt'.revert = NoRevert
                 /\ balance'[Market] = 0
                 /\ balance'[Deployer] = balance[Deployer] + balance[Market]
                 /\ \A u \in Users : balance'[u] = balance[u]
            ELSE /\ receipt'.revert # NoRevert
                 /\ ContractUnchanged]_vars

\* The owner has withdrawn the fee of a sale, and a second withdrawal found
\* nothing left.
C31_Witness ==
    /\ receipt = [fn |-> "withdrawFees", revert |-> "No funds to withdraw"]
    /\ balance[Deployer] > 0
    /\ balance[Market] = 0

\* C32: fetchUserListings(user) returns the items that user is selling and
\* that are neither sold nor cancelled, each once and nothing else.
C32_UserListingsAreOwnAvailable ==
    \A u \in Users :
        LET items == fetchUserListings(u) IN
        /\ \A j, k \in DOMAIN items : items[j] = items[k] => j = k
        /\ {items[k] : k \in DOMAIN items}
              = {idToMarketItem[i] :
                    i \in {a \in Available : idToMarketItem[a].seller = u}}

\* A seller listed two items and cancelled the first: the second is the
\* only one returned.
C32_Witness ==
    \E u \in Users :
        /\ ItemIds = 2
        /\ idToMarketItem[1].seller = u /\ idToMarketItem[2].seller = u
        /\ idToMarketItem[1].sold /\ ~idToMarketItem[2].sold
        /\ fetchUserListings(u) = <<idToMarketItem[2]>>

\* C33: a cancellation passes its checks exactly when the record exists, its
\* stored seller is the given seller and its status is active; otherwise it
\* is answered with the error of the first failing check and no record
\* changes. The write that follows the checks sets only the status of that
\* record, and what it changes is an active status to cancelled.
C33_CancelOnlyOwnActiveListing ==
    [][/\ \A c \in Clients, id \in 1..MaxItems, sl \in CancelSellers :
             calls'[c] # calls[c] /\ CancelListingGetByID(c, id, sl) =>
               IF id \in DOMAIN listings
                     /\ listings[id].seller = sl
                     /\ listings[id].status = "active"
               THEN calls'[c].pc = "checked" /\ calls'[c].id = id
               ELSE /\ calls'[c].pc = "done"
                    /\ calls'[c].err
                         = IF id \notin DOMAIN listings
                           THEN "failed to get listing"
                           ELSE IF listings[id].seller # sl
                           THEN "unauthorized: not the seller"
                           ELSE "listing is not active"
                    /\ listings' = listings
       /\ \A c \in Clients :
             CancelListingUpdateStatus(c) =>
               /\ calls[c].pc = "checked"
               /\ listings'
                    = [listings EXCEPT ![calls[c].id].status = "cancelled"]
               /\ listings' # listings
                    => listings[calls[c].id].status = "active"]_vars

\* A listing has been cancelled by its seller; another address was refused
\* and a second cancellation found it no longer active.
C33_Witness ==
    \E c, d \in Clients :
        /\ calls[c].pc = "done" /\ calls[c].op = "cancel"
        /\ calls[c].err = "listing is not active"
        /\ calls[d].pc = "done" /\ calls[d].op = "cancel"
        /\ calls[d].err = "unauthorized: not the seller"
        /\ listings[calls[c].id].status = "cancelled"

\* The MarketItemSold and MarketItemCanceled logs of an item, and its
\* MarketItemCreated logs.
TerminalLogs(itemId) ==
    {log \in chainLog :
        /\ log.topics[1] \in {"MarketItemSold", "MarketItemCanceled"}
        /\ log.topics[2] = itemId}

CreatedLogs(itemId) ==
    {log \in chainLog :
        log.topics[1] = "MarketItemCreated" /\ log.topics[2] = itemId}

\* C34: an item has at most one terminal event, MarketItemSold or
\* MarketItemCanceled, and none before its MarketItemCreated; a sale and a
\* cancellation emit theirs only for an item that has none and is not marked
\* sold, whatever the seller or the buyer call while the sale has handed
\* them control; sold never goes from true back to false.
C34_OneTerminalEventPerItem ==
    /\ [](\A i \in 1..MaxListed :
             /\ Cardinality(TerminalLogs(i)) <= 1
             /\ TerminalLogs(i) # {} => CreatedLogs(i) # {})
    /\ [][/\ \A i \in DOMAIN idToMarketItem :
                idToMarketItem[i].sold
                    => i \in DOMAIN idToMarketItem' /\ idToMarketItem'[i].sold
          /\ BuyerReturns(TRUE)
                => /\ TerminalLogs(frame.itemId) = {}
                   /\ ~getMarketItem(frame.itemId).sold
          /\ \A i \in 1..MaxListed, c \in Users :
                /\ receipt' = [fn |-> "cancelMarketItem", revert |-> NoRevert]
                /\ TxCancelMarketItem(i, c)
                => TerminalLogs(i) = {} /\ ~getMarketItem(i).sold]_vars

\* The seller, paid and in control in the middle of a sale, has tried to
\* cancel the item being sold and has been refused by the guard.
C34_Witness ==
    /\ frame # NoFrame
    /\ frame.pc = "seller"
    /\ receipt = [fn |-> "cancelMarketItem",
                  revert |-> "ReentrancyGuard: reentrant call"]

\* C35: no two items that are neither sold nor cancelled are for the same
\* token of the same NFT contract.
C35_OneAvailableItemPerToken ==
    \A i, j \in Available :
        /\ idToMarketItem[i].nftContract = idToMarketItem[j].nftContract
        /\ idToMarketItem[i].tokenId = idToMarketItem[j].tokenId
        => i = j

\* The fees of a list of sales, each <<price, platformFee at the sale>>.
RECURSIVE FeesOf(_)
FeesOf(sales) ==
    IF sales = <<>> THEN 0
    ELSE (Head(sales)[1] * Head(sales)[2]) \div 10000 + FeesOf(Tail(sales))

C37_SoldListingsCountsSold ==
    GetMarketStats.sold_listings
        = Cardinality({i \in DOMAIN listings : listings[i].status = "sold"})

\* C38: a listener has at most one subscription that it has not released,
\* and none once it has left its event loop: asleep before it subscribes
\* again, about to subscribe, or returned.
C38_AtMostOneLiveSubscription ==
    \A t \in Topics :
        /\ subscriptions[t] <= 1
        /\ sub[t] # "streaming" => subscriptions[t] = 0

\* One listener streams again after an earlier failure, with one
\* subscription; the other has subscribed, was cancelled and has returned,
\* with none.
C38_Witness ==
    \E t, u \in Topics :
        /\ sub[t] = "streaming" /\ retries[t] > 0 /\ subscriptions[t] = 1
        /\ sub[u] = "stopped" /\ received[u] # <<>> /\ subscriptions[u] = 0

\* C39: an event channel is closed at most once, by its listener as it
\* returns (or panics), when no send is pending, and nothing is sent on it
\* afterwards; once the context is cancelled, while the process runs and the
\* worker keeps receiving, every listener returns, its channel is closed and
\* its worker's range loop ends.
C39_ChannelClosedOnceAfterLastSend ==
    /\ [](\A t \in Topics :
             /\ closed[t] <= 1
             /\ closed[t] = 1
                  => eventChan[t] = <<>>
                     /\ (sub[t] = "stopped" \/ proc = "crashed"))
    /\ [][\A t \in Topics :
             /\ closed[t] > 0 => eventChan'[t] = <<>>
             /\ closed'[t] > closed[t]
                  => /\ eventChan[t] = <<>>
                     /\ sub[t] \in {"streaming", "disconnected"}
                     /\ sub'[t] = "stopped" \/ proc' = "crashed"]_vars
    /\ (ctxDone ~> \/ proc # "running"
                   \/ \A t \in Topics :
                         sub[t] = "stopped" /\ closed[t] = 1 /\ rangeEnded[t])

\* The context is cancelled, both listeners have returned and closed their
\* channels after an event was handed over, and both workers have left
\* their loops.
C39_Witness ==
    /\ ctxDone
    /\ proc = "running"
    /\ \A t \in Topics :
          sub[t] = "stopped" /\ closed[t] = 1 /\ rangeEnded[t]
    /\ \E t \in Topics : applied[t] # <<>>

====
